---------------------------- MODULE Spec2Model ----------------------------
(***************************************************************************)
(* A model of the crawl engine of Doc_Scraper:                             *)
(*   - the retry loop _download_with_retries (crawler.py and scraper.py),  *)
(*   - the crawl loops Crawler.crawl and DocumentationScraper.crawl with   *)
(*     their thread pools, fetch tasks and the externally set stop event.  *)
(* SpecRetry runs the retry loop against a scripted fetcher while the stop *)
(* event may be set; Spec runs one crawl() call of either class without    *)
(* assets; SpecAssets runs one DocumentationScraper.crawl call with        *)
(* include_assets on its start pages. SpecFiltered runs a crawl with a URL *)
(* filter, SpecAgain two crawl() calls on one object, SpecInteractive a    *)
(* Crawler.crawl call in interactive mode, SpecBrowser the page fetches of *)
(* a crawl in browser mode with their browsers, content filter and stop    *)
(* checks; SpecFilter, SpecUrl, SpecCat and SpecValid run the filter       *)
(* decision, the normalisation of the query string, the classification of  *)
(* a URL and the validation of a URL. SpecSite runs a crawl of either      *)
(* class on a fixed site under every completion order of its batches,      *)
(* SpecPersist the persistence of the pages of a batch, SpecWorker the     *)
(* worker threads of download_assets and their shared counter, SpecDeep a  *)
(* Crawler.crawl call with max_depth = 2; SpecLive is Spec with weak       *)
(* fairness of the steps of crawl() and of its tasks.                      *)
(***************************************************************************)
EXTENDS Integers, Sequences, FiniteSets, TLC

(***************************************************************************)
(* Bounds of the model.                                                    *)
(***************************************************************************)
MaxRetries == 3
NumDocUrls == 2
NumAuxUrls == 1
MaxLinks == 2
MaxPagesBound == 2
MaxDepthBound == 1
MaxConcurrent == 2
MaxStart == 2
MaxAssets == 2
NumTexts == 2
MaxPatterns == 2
MaxCalls == 2
NumBrowserTasks == 2
MaxBatches == 2
MaxParams == 3
MaxSegments == 2
MaxSlashes == 2
NumSections == 3
SitePageCap == 4
SiteMaxDepth == 3
MaxResults == 4

(***************************************************************************)
(* Helpers.                                                                *)
(***************************************************************************)
Range(s) == {s[i] : i \in DOMAIN s}

RECURSIVE SeqsUpTo(_, _)
SeqsUpTo(S, n) ==
    IF n = 0 THEN {<<>>}
    ELSE LET shorter == SeqsUpTo(S, n - 1)
         IN  shorter \cup {Append(s, x) : s \in {t \in shorter : Len(t) = n - 1}, x \in S}

SeqsOfLen(S, n) == {s \in SeqsUpTo(S, n) : Len(s) = n}

(***************************************************************************)
(* The retry loop.  One fetch attempt (session.get followed by             *)
(* raise_for_status) has one of these outcomes:                            *)
(*   "ok"     a response that passes raise_for_status                      *)
(*   "429"    a response with status 429                                   *)
(*   "404"    raise_for_status raises HTTPError with status 404            *)
(*   "5xx"    raise_for_status raises HTTPError with another status        *)
(*   "neterr" session.get raises a RequestException (timeout, reset)       *)
(***************************************************************************)
Outcomes == {"ok", "429", "404", "5xx", "neterr"}

\* the failures the specification calls transient
Transient == {"429", "5xx", "neterr"}

\* the outcomes that raise a RequestException inside the try block
RaisesRequestException(o) == o \in {"404", "5xx", "neterr"}

VARIABLES
    r_retries,    \* self.retries (Crawler) / self.max_retries (DocumentationScraper)
    r_script,     \* the fetcher: outcome of the 1st, 2nd, ... attempt on the URL
    r_attempt,    \* loop variable `attempt`
    r_calls,      \* number of session.get calls made so far
    r_sleeps,     \* number of time.sleep calls made so far
    r_pc,         \* "loop" | "returned" | "raised"
    r_exc,        \* what was raised: "none" | an outcome | "exhausted"
    r_stop,       \* stop_event.is_set()
    r_at_stop     \* r_calls and r_sleeps at the moment the stop event was set

retryVars == <<r_retries, r_script, r_attempt, r_calls, r_sleeps, r_pc, r_exc,
               r_stop, r_at_stop>>

(***************************************************************************)
(* The URL filter and the content filter.  A text is a URL or a page body; *)
(* a compiled pattern is modelled by the set of texts in which             *)
(* pattern.search finds a match.                                           *)
(***************************************************************************)
VARIABLES
    f_include,        \* url_include_regex / content_include_regex: a list of patterns
    f_exclude,        \* url_exclude_regex / content_exclude_regex
    f_text,           \* the URL or page body the filter is called with
    f_url_result,     \* what _matches_url_filters returned: "True" | "False" | "none" (not called)
    f_content_result  \* what _matches_content_filters returned

filterVars == <<f_include, f_exclude, f_text, f_url_result, f_content_result>>

\* The browsers of one crawl() call in browser mode.
VARIABLES
    b_impl,           \* "Crawler" | "Scraper": the class whose crawl() runs
    b_pc,             \* where the thread running crawl() is
    b_stop,           \* stop_event.is_set()
    b_enqueue,        \* depth < max_depth for the pages of the batch
    b_batches,        \* number of batches submitted
    b_st,             \* task -> where the worker running the page fetch is
    b_res,            \* task -> what the page fetch returned
    b_open,           \* the tasks whose Chrome is running
    active_browser_instances,  \* self.active_browser_instances (by task)
    b_passes,         \* task -> _matches_content_filters(content of its page)
    b_seen,           \* task -> the page fetch has read the stop event as set
    b_requests,       \* task -> HTTP requests the page fetch has started
    b_handed          \* the pages given to the callback / save_content and counted

browserVars == <<b_impl, b_pc, b_stop, b_enqueue, b_batches, b_st, b_res, b_open,
                 active_browser_instances, b_passes, b_seen, b_requests,
                   b_handed>>

\* The normalisation of the query string of a link.
VARIABLES
    u_query,          \* the query of the link: a sequence of <<key, value>>
    u_crawler_done,   \* the Crawler has normalised the link
    u_crawler,        \* the query of the URL that the Crawler goes on with
    u_scraper_done,   \* the DocumentationScraper has normalised the link
    u_scraper         \* the query of the URL that the DocumentationScraper goes on with

urlVars == <<u_query, u_crawler_done, u_crawler, u_scraper_done, u_scraper>>

\* The classification of a URL.
VARIABLES
    c_url,            \* the URL: None, or host labels, path segments, trailing slash
    c_base_path,      \* the path segments of the base URL of the crawl
    c_crawler,        \* what Crawler.categorize_url returned ("none": not called)
    c_utils           \* what utils.categorize_url returned ("none": not called)

catVars == <<c_url, c_base_path, c_crawler, c_utils>>

\* The validation of a URL given on the command line.
VARIABLES
    v_url,            \* the value: scheme, host, port, path segments, trailing slashes, query
    v_is_valid,       \* what is_valid_url returned ("none": not called)
    v_validated       \* what validate_url did ("none": not called)

validVars == <<v_url, v_is_valid, v_validated>>

\* The crawl of a fixed site, whose pages answer the same way every time.
VARIABLES
    s_impl,           \* "Crawler" | "Scraper": the class whose crawl() runs
    s_site,           \* url -> what its fetch gives: fails (5xx), or its links
    s_cfg,            \* max_pages, max_depth, concurrent_requests
    s_crawl,          \* queue, visited, queued, pages_downloaded, the link sets, `links`
    s_batch,          \* the entries of the batch whose result the loop has not taken
    s_pc,             \* "while" | "collect" | "returned" | "raised"
    s_dequeued        \* the depths of the entries dequeued so far, in order

siteVars == <<s_impl, s_site, s_cfg, s_crawl, s_batch, s_pc, s_dequeued>>

\* The persistence of the pages of a batch by the collect loop.
VARIABLES
    p_impl,           \* "Crawler" | "Scraper": the class whose crawl() runs
    p_batch,          \* the results the loop has not taken: "page" or "none"
    p_persist,        \* what persisting the result taken last did: "none" | "ok" | "failed"
    p_pages_downloaded, \* self.pages_downloaded
    p_progress,       \* number of calls of progress_callback
    p_log,            \* number of persistence failures written to the log
    p_pc              \* "collect" | "done"

persistVars == <<p_impl, p_batch, p_persist, p_pages_downloaded, p_progress, p_log,
                 p_pc>>

\* The worker threads of download_assets and the counter they share.
VARIABLES
    w_concurrent,     \* self.concurrent_requests
    w_pages,          \* per page fetch task: "pending" | "assets" | "done"
    w_work,           \* per page, per asset: st and reg of its download_asset_worker
    w_assets_downloaded, \* self.assets_downloaded
    w_saved,          \* number of asset files written
    w_pc              \* "crawl" | "returned"

workerVars == <<w_concurrent, w_pages, w_work, w_assets_downloaded, w_saved, w_pc>>

\* the variables of the functions and of the browser handling, which no step
\* of the crawl loop and of the retry loop touches
pureVars == <<filterVars, browserVars, urlVars, catVars, validVars, siteVars, persistVars, workerVars>>

\* the number of crawl() calls made on the object, the running one included
VARIABLE crawl_calls

\* everything that a step of a crawl() call leaves alone
offCrawl == <<retryVars, pureVars, crawl_calls>>

\* any(pattern.search(text) for pattern in patterns)
any_search(patterns, text) == \E i \in DOMAIN patterns : text \in patterns[i]

\* a filter in which a matching include pattern overrides the exclude patterns
matches_url_filters_IncludeWins(include, exclude, url) ==
    IF any_search(exclude, url) /\ ~any_search(include, url) THEN FALSE
    ELSE IF include # <<>> /\ ~any_search(include, url) THEN FALSE
    ELSE TRUE

\* `if self.url_include_regex and not any(...): return False`, then
\* `if any(... self.url_exclude_regex): return False`, then `return True`
matches_url_filters(include, exclude, url) ==
    IF include # <<>> /\ ~any_search(include, url) THEN FALSE
    ELSE IF any_search(exclude, url) THEN FALSE
    ELSE TRUE

\* `if self.content_include_regex: if not any(...): return False`, then
\* `if any(... self.content_exclude_regex): return False`, then `return True`
matches_content_filters(include, exclude, html_content) ==
    IF include # <<>> /\ ~any_search(include, html_content) THEN FALSE
    ELSE IF any_search(exclude, html_content) THEN FALSE
    ELSE TRUE

(***************************************************************************)
(* The crawl.  A URL is a pair <<kind, n>>: kind is what the path of the   *)
(* URL makes of it ("doc": a documentation marker or the base path, "aux": *)
(* a same-site URL without one), n tells the URLs of a kind apart.  The    *)
(* site is served from the base domain and the base URL has an empty path. *)
(***************************************************************************)
BaseUrl == <<"doc", 0>>

Urls == {<<"doc", n>> : n \in 0..NumDocUrls} \cup {<<"aux", n>> : n \in 1..NumAuxUrls}

\* Crawler.categorize_url on the same-site, non-asset URLs of the model
categorize_url(url) == url[1]

\* DocumentationScraper._is_documentation_link
is_documentation_link(url) == url[1] = "doc"

\* the link lists extract_links can return: seen_urls / added_links keep
\* every URL at most once
LinkLists == {l \in SeqsUpTo(Urls, MaxLinks) : \A i, j \in DOMAIN l : i # j => l[i] # l[j]}

\* max_pages = None
Unlimited == -1

\* the start_urls argument of DocumentationScraper.crawl: None (or []), or a
\* list that names the base URL MaxStart times
StartLists == {<<>>} \cup SeqsOfLen({BaseUrl}, MaxStart)

VARIABLES
    impl,             \* "Crawler" | "Scraper": the class whose crawl() runs
    cfg,              \* the constructor and crawl() arguments
    stop_event,       \* stop_event.is_set()
    pc,               \* where the thread running crawl() is
    stopping,         \* local flag `stopping`
    queue,            \* doc_queue / queue: sequence of <<url, depth>>
    tasks,            \* the futures of the current batch, in batch order
    visited,          \* self.visited
    queued,           \* self.queued
    failed_urls,      \* self.failed_urls: url -> message ("" when absent)
    pages_downloaded, \* self.pages_downloaded
    assets_downloaded,\* self.assets_downloaded
    doc_links,        \* self.doc_links (Crawler)
    aux_links,        \* self.aux_links (Crawler)
    links,            \* local variable `links` of DocumentationScraper.crawl
    raising,          \* an exception is propagating out of crawl()
    fetched           \* url -> number of submissions to the page fetch in this call (capped at 2)

crawlVars == <<impl, cfg, stop_event, pc, stopping, queue, tasks, visited, queued,
               failed_urls, pages_downloaded, assets_downloaded, doc_links,
               aux_links, links, raising, fetched, crawl_calls>>

\* everything but the variables of the retry loop
offRetry == <<crawlVars, pureVars>>

vars == <<retryVars, crawlVars, pureVars>>

\* everything but the variables of the filters
offFilter == <<retryVars, crawlVars, browserVars, urlVars, catVars, validVars, siteVars, persistVars, workerVars>>

\* everything but the variables of the browser handling
offBrowser == <<retryVars, crawlVars, filterVars, urlVars, catVars, validVars, siteVars, persistVars, workerVars>>

\* everything but the variables of the normalisation
offUrl == <<retryVars, crawlVars, filterVars, browserVars, catVars, validVars, siteVars, persistVars, workerVars>>

\* everything but the variables of the classification
offCat == <<retryVars, crawlVars, filterVars, browserVars, urlVars, validVars, siteVars, persistVars, workerVars>>

\* everything but the variables of the validation
offValid == <<retryVars, crawlVars, filterVars, browserVars, urlVars, catVars, siteVars, persistVars, workerVars>>

\* everything but the variables of siteVars
offSite == <<retryVars, crawlVars, filterVars, browserVars, urlVars, catVars, validVars, persistVars, workerVars>>

\* everything but the variables of persistVars
offPersist == <<retryVars, crawlVars, filterVars, browserVars, urlVars, catVars, validVars, siteVars, workerVars>>

\* everything but the variables of workerVars
offWorker == <<retryVars, crawlVars, filterVars, browserVars, urlVars, catVars, validVars, siteVars, persistVars>>

\* a crawl that lets every URL pass
url_allowed_Off(url) == TRUE

\* self._matches_url_filters(url) of the crawl: no include pattern, and one
\* exclude pattern, which matches the URLs of cfg.url_exclude
url_allowed(url) == matches_url_filters(<<>>, <<cfg.url_exclude>>, url)

\* DocumentationScraper.is_valid_doc_url: same domain, empty base path, not
\* an asset, no exclusion pattern, and the URL filter
is_valid_doc_url(url) == url \in Urls /\ url_allowed(url)

\* the links of a fetch result: None, or a list
NoLinks == [tag |-> "none", val |-> <<>>]
LinkList(l) == [tag |-> "list", val |-> l]
Unbound == [tag |-> "unbound", val |-> <<>>]

\* what a fetch task returned: html (and title) truthy or not, the links,
\* or an exception to be raised by future.result()
NoResult == [html |-> FALSE, links |-> NoLinks, raises |-> FALSE]
Result(html, lnk, raises) == [html |-> html, links |-> lnk, raises |-> raises]

\* a crawler object on which crawl() is not running
CrawlIdle ==
    /\ impl = "Crawler"
    /\ cfg = [max_pages |-> Unlimited, max_depth |-> 0, concurrent_requests |-> 1,
              delay |-> 0, interactive |-> FALSE, include_assets |-> FALSE,
              start_urls |-> <<>>, url_exclude |-> {}, aux_decision |-> FALSE]
    /\ stop_event = FALSE
    /\ pc = "idle"
    /\ stopping = FALSE
    /\ queue = <<>>
    /\ tasks = <<>>
    /\ visited = {}
    /\ queued = {}
    /\ failed_urls = [u \in Urls |-> ""]
    /\ pages_downloaded = 0
    /\ assets_downloaded = 0
    /\ doc_links = {}
    /\ aux_links = {}
    /\ links = Unbound
    /\ raising = FALSE
    /\ fetched = [u \in Urls |-> 0]
    /\ crawl_calls = 0

FilterIdle ==
    /\ f_include = <<>>
    /\ f_exclude = <<>>
    /\ f_text = 0
    /\ f_url_result = "none"
    /\ f_content_result = "none"

\* no crawl() in browser mode is running
BrowserIdle ==
    /\ b_impl = "Crawler"
    /\ b_pc = "idle"
    /\ b_stop = FALSE
    /\ b_enqueue = FALSE
    /\ b_batches = 0
    /\ b_st = <<>>
    /\ b_res = <<>>
    /\ b_open = {}
    /\ active_browser_instances = {}
    /\ b_passes = <<>>
    /\ b_seen = <<>>
    /\ b_requests = <<>>
    /\ b_handed = {}

\* no link is being normalised
UrlIdle ==
    /\ u_query = <<>>
    /\ u_crawler_done = FALSE
    /\ u_crawler = <<>>
    /\ u_scraper_done = FALSE
    /\ u_scraper = <<>>

\* the URL None
NilUrl == [nil |-> TRUE, host |-> <<>>, segs |-> <<>>, slash |-> FALSE]

\* no URL is being classified
CatIdle ==
    /\ c_url = NilUrl
    /\ c_base_path = <<>>
    /\ c_crawler = "none"
    /\ c_utils = "none"

\* the empty string
EmptyUrl == [scheme |-> "", host |-> "", port |-> "", segs |-> <<>>, slashes |-> 0,
             query |-> ""]

\* validate_url has not run
NotValidated == [kind |-> "none", url |-> EmptyUrl]

\* no value is being validated
ValidIdle ==
    /\ v_url = EmptyUrl
    /\ v_is_valid = "none"
    /\ v_validated = NotValidated

\* the crawl state of an object on which crawl() has not run
NoCrawl ==
    [queue |-> <<>>, visited |-> {}, queued |-> {}, pages_downloaded |-> 0,
     doc_links |-> {}, aux_links |-> {}, links |-> Unbound,
     raising |-> FALSE]

\* no fixed site is being crawled
SiteIdle ==
    /\ s_impl = "Crawler"
    /\ s_site = <<>>
    /\ s_cfg = [max_pages |-> Unlimited, max_depth |-> 0, concurrent_requests |-> 1]
    /\ s_crawl = NoCrawl
    /\ s_batch = {}
    /\ s_pc = "idle"
    /\ s_dequeued = <<>>

\* no batch is being collected
PersistIdle ==
    /\ p_impl = "Crawler"
    /\ p_batch = <<>>
    /\ p_persist = "none"
    /\ p_pages_downloaded = 0
    /\ p_progress = 0
    /\ p_log = 0
    /\ p_pc = "idle"

\* no asset worker exists
WorkerIdle ==
    /\ w_concurrent = 1
    /\ w_pages = <<>>
    /\ w_work = <<>>
    /\ w_assets_downloaded = 0
    /\ w_saved = 0
    /\ w_pc = "idle"

\* no function is being checked and no browser is in use
PureIdle == FilterIdle /\ BrowserIdle /\ UrlIdle /\ CatIdle /\ ValidIdle /\ SiteIdle /\ PersistIdle /\ WorkerIdle

\* the stop event has not been set
NotStopped == [calls |-> 0, sleeps |-> 0]

RetryIdle ==
    /\ r_retries = 0
    /\ r_script = <<>>
    /\ r_attempt = 0
    /\ r_calls = 0
    /\ r_sleeps = 0
    /\ r_pc = "idle"
    /\ r_exc = "none"
    /\ r_stop = FALSE
    /\ r_at_stop = NotStopped

InitRetry ==
    /\ r_retries \in 0..MaxRetries
    /\ r_script \in SeqsOfLen(Outcomes, MaxRetries)
    /\ r_attempt = 0
    /\ r_calls = 0
    /\ r_sleeps = 0
    /\ r_pc = "loop"
    /\ r_exc = "none"
    /\ r_stop = FALSE
    /\ r_at_stop = NotStopped
    /\ CrawlIdle
    /\ PureIdle

\* `if attempt == self.retries - 1` in the except clause
IsLastAttempt_NoRetry(attempt, retries) == TRUE

IsLastAttempt(attempt, retries) == attempt = retries - 1

\* the caller's thread sets the stop event while the download is in its loop
Retry_StopSet ==
    /\ r_pc = "loop"
    /\ ~r_stop
    /\ r_stop' = TRUE
    /\ r_at_stop' = [calls |-> r_calls, sleeps |-> r_sleeps]
    /\ UNCHANGED <<r_retries, r_script, r_attempt, r_calls, r_sleeps, r_pc, r_exc>>
    /\ UNCHANGED offRetry

\* one iteration of `for attempt in range(self.retries)`; nothing in it reads
\* the stop event
RetryAttempt ==
    /\ r_pc = "loop"
    /\ r_attempt < r_retries
    /\ LET o == r_script[r_attempt + 1]
           backoff == IF r_attempt > 0 THEN 1 ELSE 0
       IN  /\ r_calls' = r_calls + 1
           /\ IF o = "429"
              THEN \* sleep, then `continue`
                   /\ r_sleeps' = r_sleeps + backoff + 1
                   /\ r_attempt' = r_attempt + 1
                   /\ UNCHANGED <<r_pc, r_exc>>
              ELSE IF RaisesRequestException(o)
              THEN /\ r_sleeps' = r_sleeps + backoff
                   /\ IF IsLastAttempt(r_attempt, r_retries)
                      THEN /\ r_pc' = "raised"
                           /\ r_exc' = o
                           /\ UNCHANGED r_attempt
                      ELSE /\ r_attempt' = r_attempt + 1
                           /\ UNCHANGED <<r_pc, r_exc>>
              ELSE \* return response
                   /\ r_sleeps' = r_sleeps + backoff
                   /\ r_pc' = "returned"
                   /\ UNCHANGED <<r_attempt, r_exc>>
    /\ UNCHANGED <<r_retries, r_script, r_stop, r_at_stop>>
    /\ UNCHANGED offRetry

\* the loop ran out of iterations: the raise after the for statement
RetryExhausted ==
    /\ r_pc = "loop"
    /\ r_attempt >= r_retries
    /\ r_pc' = "raised"
    /\ r_exc' = "exhausted"
    /\ UNCHANGED <<r_retries, r_script, r_attempt, r_calls, r_sleeps, r_stop,
                   r_at_stop>>
    /\ UNCHANGED offRetry

NextRetry == Retry_StopSet \/ RetryAttempt \/ RetryExhausted

SpecRetry == InitRetry /\ [][NextRetry]_vars

(***************************************************************************)
(* One crawl() call.                                                       *)
(***************************************************************************)
Min(a, b) == IF a < b THEN a ELSE b

\* the arguments of the constructor and of crawl() that the model runs.
\* DocumentationScraper never counts a page (see save_content), so that any
\* cap above 0 is for it the same as no cap.
Configs(i, assets) ==
    [max_pages : IF i = "Scraper" THEN {Unlimited, 0} ELSE {Unlimited} \cup 0..MaxPagesBound,
     max_depth : 0..MaxDepthBound,
     concurrent_requests : 1..MaxConcurrent,
     delay : {1},
     interactive : {FALSE},
     include_assets : {assets},
     start_urls : IF i = "Scraper" THEN StartLists ELSE {<<>>},
     url_exclude : {{}},
     aux_decision : {FALSE}]

CrawlStart ==
    /\ stop_event = FALSE
    /\ pc = "start"
    /\ stopping = FALSE
    /\ queue = <<>>
    /\ tasks = <<>>
    /\ visited = {}
    /\ queued = {}
    /\ failed_urls = [u \in Urls |-> ""]
    /\ pages_downloaded = 0
    /\ assets_downloaded = 0
    /\ doc_links = {}
    /\ aux_links = {}
    /\ links = Unbound
    /\ raising = FALSE
    /\ fetched = [u \in Urls |-> 0]
    /\ crawl_calls = 1

\* crawl() of either class is called on a new object, without assets
Init ==
    /\ RetryIdle
    /\ PureIdle
    /\ impl \in {"Crawler", "Scraper"}
    /\ cfg \in Configs(impl, FALSE)
    /\ CrawlStart

\* the start_urls of the crawls with assets: None, or two distinct pages
AssetStartLists == {<<>>, <<BaseUrl, <<"doc", 1>> >>}

\* DocumentationScraper.crawl is called on a new object with include_assets,
\* without a page cap, on the start pages only (max_depth = 0)
InitAssets ==
    /\ RetryIdle
    /\ PureIdle
    /\ impl = "Scraper"
    /\ \E c \in Configs(impl, TRUE), s \in AssetStartLists :
          /\ c.max_pages = Unlimited
          /\ c.max_depth = 0
          /\ c.start_urls = <<>>
          /\ cfg = [c EXCEPT !.start_urls = s]
    /\ CrawlStart

\* the caller's thread sets the stop event while crawl() runs
StopSet ==
    /\ pc \notin {"idle", "returned", "raised"}
    /\ ~stop_event
    /\ stop_event' = TRUE
    /\ UNCHANGED <<impl, cfg, pc, stopping, queue, tasks, visited, queued, failed_urls,
                   pages_downloaded, assets_downloaded, doc_links, aux_links, links,
                   raising, fetched>>
    /\ UNCHANGED offCrawl

\* `while queue and (self.max_pages is None or self.pages_downloaded <
\* self.max_pages) and not stopping`
LoopCondition ==
    /\ queue # <<>>
    /\ (cfg.max_pages = Unlimited \/ pages_downloaded < cfg.max_pages)
    /\ ~stopping

\* `for _ in range(min(self.concurrent_requests, len(queue)))`
BatchSize == Min(cfg.concurrent_requests, Len(queue))

\* a future of the batch: st is its state, res what it returned, yielded
\* whether as_completed has handed it to the loop, apend and arun the assets
\* of its page waiting and in flight, failed whether its fetch ended in an
\* error (_download_with_retries raised), filtered whether the content
\* filter rejected its page
NewTask(entry) ==
    [url |-> entry[1], depth |-> entry[2], st |-> "pending", res |-> NoResult,
     yielded |-> FALSE, apend |-> 0, arun |-> 0, failed |-> FALSE,
     filtered |-> FALSE]

CountIn(batch, u) == Cardinality({i \in DOMAIN batch : batch[i][1] = u})

\* dequeue the batch and executor.submit one fetch task per entry
SubmitBatch ==
    LET n == BatchSize
        batch == SubSeq(queue, 1, n)
    IN  /\ queue' = SubSeq(queue, n + 1, Len(queue))
        /\ tasks' = [i \in 1..n |-> NewTask(batch[i])]
        /\ fetched' = [u \in Urls |-> Min(2, fetched[u] + CountIn(batch, u))]

\* ThreadPoolExecutor.__exit__: shutdown(wait=True) returns when no task of
\* the pool is pending or running
ExecutorShutdownWait_NoWait == TRUE

ExecutorShutdownWait == \A i \in DOMAIN tasks : tasks[i].st \in {"done", "cancelled"}

AllYielded(t) == \A i \in DOMAIN t : t[i].yielded

\* the worker threads of a pool: at most max_workers tasks run at a time
WorkerFree == Cardinality({i \in DOMAIN tasks : tasks[i].st \in {"running", "assets"}})
                  < cfg.concurrent_requests

\* `depth < self.max_depth`
MayEnqueue_Off(depth) == depth <= cfg.max_depth

MayEnqueue(depth) == depth < cfg.max_depth

\* a loop over the links of a page that appends every link
EnqueueLinks_All(ls, depth, q, qd, vis) ==
    [queue |-> q \o [k \in DOMAIN ls |-> <<ls[k], depth + 1>>],
     queued |-> qd \cup {ls[k] : k \in DOMAIN ls}]

\* the loop over the links of a page: a link that is not in visited, not in
\* queued and not in the queue is appended with depth + 1 and added to queued
RECURSIVE EnqueueLinks(_, _, _, _, _)
EnqueueLinks(ls, depth, q, qd, vis) ==
    IF ls = <<>> THEN [queue |-> q, queued |-> qd]
    ELSE LET l == Head(ls)
             new == /\ l \notin vis
                    /\ l \notin qd
                    /\ \A k \in DOMAIN q : q[k][1] # l
         IN  IF new
             THEN EnqueueLinks(Tail(ls), depth, Append(q, <<l, depth + 1>>), qd \cup {l}, vis)
             ELSE EnqueueLinks(Tail(ls), depth, q, qd, vis)

KindOf(ls, kind) == SelectSeq(ls, LAMBDA u : categorize_url(u) = kind)

\* what _download_with_retries ends with: a response, or the exception of
\* the last attempt, or the RequestException raised after the loop
FetchEnds == {"ok", "404", "5xx", "neterr", "exhausted"}

(***************************************************************************)
(* Crawler.crawl and Crawler.download_url                                  *)
(***************************************************************************)
Crawler_Start ==
    /\ impl = "Crawler"
    /\ pc = "start"
    /\ pages_downloaded' = 0
    /\ visited' = {}
    /\ failed_urls' = [u \in Urls |-> ""]
    /\ doc_links' = {}
    /\ aux_links' = {}
    /\ queue' = << <<BaseUrl, 0>> >>
    /\ queued' = {BaseUrl}
    /\ stopping' = FALSE
    /\ pc' = "while"
    /\ UNCHANGED <<impl, cfg, stop_event, tasks, assets_downloaded, links, raising, fetched>>
    /\ UNCHANGED offCrawl

Crawler_LoopHead ==
    /\ impl = "Crawler"
    /\ pc = "while"
    /\ pc' = IF LoopCondition THEN "check" ELSE "phase2"
    /\ UNCHANGED <<impl, cfg, stop_event, stopping, queue, tasks, visited, queued,
                   failed_urls, pages_downloaded, assets_downloaded, doc_links,
                   aux_links, links, raising, fetched>>
    /\ UNCHANGED offCrawl

\* `if self.stop_event and self.stop_event.is_set(): stopping = True; break`
Crawler_CheckStop ==
    /\ impl = "Crawler"
    /\ pc = "check"
    /\ IF stop_event
       THEN /\ stopping' = TRUE
            /\ pc' = "phase2"
       ELSE /\ pc' = "submit"
            /\ UNCHANGED stopping
    /\ UNCHANGED <<impl, cfg, stop_event, queue, tasks, visited, queued, failed_urls,
                   pages_downloaded, assets_downloaded, doc_links, aux_links, links,
                   raising, fetched>>
    /\ UNCHANGED offCrawl

Crawler_Submit ==
    /\ impl = "Crawler"
    /\ pc = "submit"
    /\ SubmitBatch
    /\ pc' = "collect"
    /\ UNCHANGED <<impl, cfg, stop_event, stopping, visited, queued, failed_urls,
                   pages_downloaded, assets_downloaded, doc_links, aux_links, links,
                   raising>>
    /\ UNCHANGED offCrawl

\* requests.Response.__bool__ is Response.ok: false for an error status
ResponseTruthy(f) == f = "ok"

\* the except clauses of Crawler.download_url
Crawler_FailMessage(f) ==
    IF f \in {"404", "5xx"}
    THEN IF ResponseTruthy(f) /\ f = "404" THEN "404 Not Found" ELSE "HTTP Error"
    ELSE "error"

\* a worker thread takes the task: download_url up to its first stop check
Crawler_TaskStart(i) ==
    /\ impl = "Crawler"
    /\ i \in DOMAIN tasks
    /\ tasks[i].st = "pending"
    /\ WorkerFree
    /\ IF stop_event
       THEN tasks' = [tasks EXCEPT ![i].st = "done",
                                   ![i].res = Result(FALSE, NoLinks, FALSE)]
       ELSE tasks' = [tasks EXCEPT ![i].st = "running"]
    /\ UNCHANGED <<impl, cfg, stop_event, pc, stopping, queue, visited, queued,
                   failed_urls, pages_downloaded, assets_downloaded, doc_links,
                   aux_links, links, raising, fetched>>
    /\ UNCHANGED offCrawl

\* the rest of download_url: the fetch, the stop checks, the content filter,
\* the parse and extract_links
Crawler_TaskFinish(i) ==
    /\ impl = "Crawler"
    /\ i \in DOMAIN tasks
    /\ tasks[i].st = "running"
    /\ \E f \in FetchEnds :
        IF f # "ok"
        THEN /\ failed_urls' = [failed_urls EXCEPT ![tasks[i].url] = Crawler_FailMessage(f)]
             /\ tasks' = [tasks EXCEPT ![i].st = "done", ![i].failed = TRUE,
                                       ![i].res = Result(FALSE, NoLinks, FALSE)]
        ELSE /\ UNCHANGED failed_urls
             /\ IF stop_event
                THEN tasks' = [tasks EXCEPT ![i].st = "done",
                                            ![i].res = Result(FALSE, NoLinks, FALSE)]
                ELSE \E body \in {"filtered", "parse_error", "empty", "page"} :
                        \/ /\ body = "filtered"
                           /\ tasks' = [tasks EXCEPT ![i].st = "done", ![i].filtered = TRUE,
                                                     ![i].res = Result(FALSE, NoLinks, FALSE)]
                        \/ /\ body = "parse_error"
                           /\ tasks' = [tasks EXCEPT ![i].st = "done",
                                                     ![i].res = Result(TRUE, NoLinks, FALSE)]
                        \/ /\ body = "empty"
                           /\ tasks' = [tasks EXCEPT ![i].st = "done",
                                                     ![i].res = Result(FALSE, LinkList(<<>>), FALSE)]
                        \/ /\ body = "page"
                           /\ \E l \in LinkLists :
                                tasks' = [tasks EXCEPT ![i].st = "done",
                                              ![i].res = Result(TRUE,
                                                  LinkList(SelectSeq(l, url_allowed)), FALSE)]
    /\ UNCHANGED <<impl, cfg, stop_event, pc, stopping, queue, visited, queued,
                   pages_downloaded, assets_downloaded, doc_links, aux_links, links,
                   raising, fetched>>
    /\ UNCHANGED offCrawl

\* a loop that marks a URL as visited only when its page was downloaded
VisitedAdd_OnSuccess(vis, t, r) ==
    IF r.html /\ r.links.tag = "list" THEN vis \cup {t.url} ELSE vis

\* `html_content, links = future.result()` then `self.visited.add(url)`:
\* download_url returns from every `except`, so that the add is reached
\* whatever the result is
VisitedAdd(vis, t, r) == vis \cup {t.url}

\* one iteration of `for future in concurrent.futures.as_completed(...)`
Crawler_Collect(i) ==
    /\ impl = "Crawler"
    /\ pc = "collect"
    /\ i \in DOMAIN tasks
    /\ tasks[i].st = "done"
    /\ ~tasks[i].yielded
    /\ LET t == tasks[i]
           r == t.res
           nt == [tasks EXCEPT ![i].yielded = TRUE, ![i].res = NoResult]
           vis == VisitedAdd(visited, t, r)
       IN  /\ tasks' = nt
           /\ pc' = IF AllYielded(nt) THEN "exit_with" ELSE "collect"
           /\ visited' = vis
           /\ IF r.html /\ r.links.tag = "list"
              THEN /\ pages_downloaded' = pages_downloaded + 1
                   /\ doc_links' = doc_links \cup Range(KindOf(r.links.val, "doc"))
                   /\ aux_links' = aux_links \cup Range(KindOf(r.links.val, "aux"))
                   /\ IF MayEnqueue(t.depth)
                      THEN LET e == EnqueueLinks(KindOf(r.links.val, "doc"), t.depth,
                                                 queue, queued, vis)
                           IN  /\ queue' = e.queue
                               /\ queued' = e.queued
                      ELSE UNCHANGED <<queue, queued>>
              ELSE UNCHANGED <<pages_downloaded, doc_links, aux_links, queue, queued>>
    /\ UNCHANGED <<impl, cfg, stop_event, stopping, failed_urls, assets_downloaded,
                   links, raising, fetched>>
    /\ UNCHANGED offCrawl

\* leaving `with ThreadPoolExecutor(...) as executor`
Crawler_ExitWith ==
    /\ impl = "Crawler"
    /\ pc = "exit_with"
    /\ ExecutorShutdownWait
    /\ pc' = "delay"
    /\ UNCHANGED <<impl, cfg, stop_event, stopping, queue, tasks, visited, queued,
                   failed_urls, pages_downloaded, assets_downloaded, doc_links,
                   aux_links, links, raising, fetched>>
    /\ UNCHANGED offCrawl

\* `if self.delay > 0 and doc_queue and not stopping: time.sleep(self.delay)`
Crawler_Delay ==
    /\ impl = "Crawler"
    /\ pc = "delay"
    /\ pc' = IF cfg.delay > 0 /\ queue # <<>> /\ ~stopping THEN "sleep" ELSE "while"
    /\ UNCHANGED <<impl, cfg, stop_event, stopping, queue, tasks, visited, queued,
                   failed_urls, pages_downloaded, assets_downloaded, doc_links,
                   aux_links, links, raising, fetched>>
    /\ UNCHANGED offCrawl

\* time.sleep(self.delay) returns
SleepDone ==
    /\ pc = "sleep"
    /\ pc' = "while"
    /\ UNCHANGED <<impl, cfg, stop_event, stopping, queue, tasks, visited, queued,
                   failed_urls, pages_downloaded, assets_downloaded, doc_links,
                   aux_links, links, raising, fetched>>
    /\ UNCHANGED offCrawl

\* the auxiliary links that were found and neither visited nor queued
available_aux_links == {l \in aux_links : l \notin visited /\ l \notin queued}

\* the second phase gets to the question about the auxiliary pages: not
\* stopping, the page cap not reached, interactive, auxiliary links there
Phase2Asks ==
    /\ ~stopping
    /\ (cfg.max_pages = Unlimited \/ pages_downloaded < cfg.max_pages)
    /\ cfg.interactive
    /\ available_aux_links # {}

\* `process_aux = False`: the question is logged, nobody is asked
process_aux == FALSE

\* the second phase, the cleanup and the return; the crawl of the auxiliary
\* pages under `if process_aux:` is a comment
Crawler_Phase2 ==
    /\ impl = "Crawler"
    /\ pc = "phase2"
    /\ pc' = IF Phase2Asks /\ process_aux THEN "aux_phase" ELSE "returned"
    /\ UNCHANGED <<impl, cfg, stop_event, stopping, queue, tasks, visited, queued,
                   failed_urls, pages_downloaded, assets_downloaded, doc_links,
                   aux_links, links, raising, fetched>>
    /\ UNCHANGED offCrawl

(***************************************************************************)
(* DocumentationScraper.crawl, download_page and download_assets           *)
(***************************************************************************)
\* the list the queue is seeded from: `start_urls if start_urls else [self.base_url]`
InitialUrls == IF cfg.start_urls # <<>> THEN cfg.start_urls ELSE <<BaseUrl>>

Scraper_Start ==
    /\ impl = "Scraper"
    /\ pc = "start"
    /\ LET valid == SelectSeq(InitialUrls, is_valid_doc_url)
       IN  /\ queue' = [k \in DOMAIN valid |-> <<valid[k], 0>>]
           /\ queued' = queued \cup Range(valid)
    /\ pages_downloaded' = 0
    /\ assets_downloaded' = 0
    /\ visited' = {}
    /\ failed_urls' = [u \in Urls |-> ""]
    /\ stopping' = FALSE
    /\ pc' = "while"
    /\ UNCHANGED <<impl, cfg, stop_event, tasks, doc_links, aux_links, links, raising, fetched>>
    /\ UNCHANGED offCrawl

Scraper_LoopHead ==
    /\ impl = "Scraper"
    /\ pc = "while"
    /\ pc' = IF LoopCondition THEN "check" ELSE "cleanup"
    /\ UNCHANGED <<impl, cfg, stop_event, stopping, queue, tasks, visited, queued,
                   failed_urls, pages_downloaded, assets_downloaded, doc_links,
                   aux_links, links, raising, fetched>>
    /\ UNCHANGED offCrawl

\* the stop check at the top of the loop body
Scraper_CheckStop ==
    /\ impl = "Scraper"
    /\ pc = "check"
    /\ IF stop_event
       THEN /\ stopping' = TRUE
            /\ queue' = <<>>
            /\ pc' = "cleanup"
       ELSE /\ pc' = "submit"
            /\ UNCHANGED <<stopping, queue>>
    /\ UNCHANGED <<impl, cfg, stop_event, tasks, visited, queued, failed_urls,
                   pages_downloaded, assets_downloaded, doc_links, aux_links, links,
                   raising, fetched>>
    /\ UNCHANGED offCrawl

Scraper_Submit ==
    /\ impl = "Scraper"
    /\ pc = "submit"
    /\ SubmitBatch
    /\ pc' = "collect"
    /\ UNCHANGED <<impl, cfg, stop_event, stopping, visited, queued, failed_urls,
                   pages_downloaded, assets_downloaded, doc_links, aux_links, links,
                   raising>>
    /\ UNCHANGED offCrawl

\* ("", "", [])
Blank == Result(FALSE, LinkList(<<>>), FALSE)

\* a worker thread takes the task: download_page up to its first stop check
Scraper_TaskStart(i) ==
    /\ impl = "Scraper"
    /\ i \in DOMAIN tasks
    /\ tasks[i].st = "pending"
    /\ WorkerFree
    /\ IF stop_event
       THEN tasks' = [tasks EXCEPT ![i].st = "done", ![i].res = Blank]
       ELSE tasks' = [tasks EXCEPT ![i].st = "running"]
    /\ UNCHANGED <<impl, cfg, stop_event, pc, stopping, queue, visited, queued,
                   failed_urls, pages_downloaded, assets_downloaded, doc_links,
                   aux_links, links, raising, fetched>>
    /\ UNCHANGED offCrawl

\* the rest of download_page: the fetch, the stop checks, the content
\* filter, the parse, extract_links and, with include_assets, the call of
\* download_assets with the n assets of the page
Scraper_TaskFinish(i) ==
    /\ impl = "Scraper"
    /\ i \in DOMAIN tasks
    /\ tasks[i].st = "running"
    /\ \E f \in FetchEnds :
        \/ /\ f = "404"             \* return None, None, None
           /\ tasks' = [tasks EXCEPT ![i].st = "done", ![i].failed = TRUE,
                                     ![i].res = Result(FALSE, NoLinks, FALSE)]
        \/ /\ f = "5xx"             \* `raise` in the HTTPError clause
           /\ tasks' = [tasks EXCEPT ![i].st = "done", ![i].failed = TRUE,
                                     ![i].res = Result(FALSE, NoLinks, TRUE)]
        \/ /\ f \in {"neterr", "exhausted"}
           /\ tasks' = [tasks EXCEPT ![i].st = "done", ![i].failed = TRUE,
                                     ![i].res = Blank]
        \/ /\ f = "ok"
           /\ IF stop_event
              THEN tasks' = [tasks EXCEPT ![i].st = "done", ![i].res = Blank]
              ELSE \E body \in {"filtered", "falsy", "page"} :
                      \/ /\ body = "filtered"
                         /\ tasks' = [tasks EXCEPT ![i].st = "done", ![i].filtered = TRUE,
                                                   ![i].res = Blank]
                      \/ /\ body \in {"falsy", "page"}
                         /\ \E l \in LinkLists, n \in 0..MaxAssets :
                              /\ n > 0 => cfg.include_assets
                              /\ tasks' = [tasks EXCEPT
                                    ![i].st = IF n > 0 THEN "assets" ELSE "done",
                                    ![i].apend = n,
                                    ![i].res = Result(body = "page", LinkList(l), FALSE)]
    /\ UNCHANGED <<impl, cfg, stop_event, pc, stopping, queue, visited, queued,
                   failed_urls, pages_downloaded, assets_downloaded, doc_links,
                   aux_links, links, raising, fetched>>
    /\ UNCHANGED offCrawl

\* download_assets: a worker of the page's asset pool takes an asset
AssetStart(i) ==
    /\ i \in DOMAIN tasks
    /\ tasks[i].st = "assets"
    /\ tasks[i].apend > 0
    /\ tasks[i].arun < cfg.concurrent_requests
    /\ tasks' = [tasks EXCEPT ![i].apend = @ - 1, ![i].arun = @ + 1]
    /\ UNCHANGED <<impl, cfg, stop_event, pc, stopping, queue, visited, queued,
                   failed_urls, pages_downloaded, assets_downloaded, doc_links,
                   aux_links, links, raising, fetched>>
    /\ UNCHANGED offCrawl

\* a worker whose failure goes on to the page's fetch task
AssetFailure_Propagates(res) == [res EXCEPT !.raises = TRUE]

\* `except Exception as e: logger.error(...); return False` around the whole
\* body of download_asset_worker: what download_page is about to return is
\* left as it is
AssetFailure(res) == res

\* download_asset_worker returns True (saved, counted) or False
AssetFinish(i) ==
    /\ i \in DOMAIN tasks
    /\ tasks[i].st = "assets"
    /\ tasks[i].arun > 0
    /\ \E saved \in BOOLEAN :
          /\ tasks' = [tasks EXCEPT ![i].arun = @ - 1,
                                    ![i].res = IF saved THEN @ ELSE AssetFailure(@)]
          /\ assets_downloaded' = IF saved THEN assets_downloaded + 1 ELSE assets_downloaded
    /\ UNCHANGED <<impl, cfg, stop_event, pc, stopping, queue, visited, queued,
                   failed_urls, pages_downloaded, doc_links, aux_links, links,
                   raising, fetched>>
    /\ UNCHANGED offCrawl

\* concurrent.futures.wait(futures) returns and download_page returns
AssetsDone(i) ==
    /\ i \in DOMAIN tasks
    /\ tasks[i].st = "assets"
    /\ tasks[i].apend = 0
    /\ tasks[i].arun = 0
    /\ tasks' = [tasks EXCEPT ![i].st = "done"]
    /\ UNCHANGED <<impl, cfg, stop_event, pc, stopping, queue, visited, queued,
                   failed_urls, pages_downloaded, assets_downloaded, doc_links,
                   aux_links, links, raising, fetched>>
    /\ UNCHANGED offCrawl

\* save_content: a page detected as non-English returns False; for an
\* English page f.write(yaml_frontmatter) names a variable that is defined
\* nowhere, the NameError is caught by `except Exception` and the method
\* returns False
save_content(lang) == IF lang # "en" THEN FALSE ELSE FALSE

\* one iteration of `for future in concurrent.futures.as_completed(...)`
Scraper_Collect(i) ==
    /\ impl = "Scraper"
    /\ pc = "collect"
    /\ i \in DOMAIN tasks
    /\ tasks[i].st = "done"
    /\ ~tasks[i].yielded
    /\ LET t == tasks[i]
           r == t.res
           nt == [tasks EXCEPT ![i].yielded = TRUE, ![i].res = NoResult]
       IN  IF stop_event
           THEN \* cancel the other futures, clear the queue, break
                /\ stopping' = TRUE
                /\ tasks' = [j \in DOMAIN nt |->
                               IF j # i /\ nt[j].st = "pending"
                               THEN [nt[j] EXCEPT !.st = "cancelled"]
                               ELSE nt[j]]
                /\ queue' = <<>>
                /\ pc' = "exit_with"
                /\ UNCHANGED <<visited, queued, pages_downloaded, links, raising>>
           ELSE LET now == IF r.raises THEN links ELSE r.links
                IN  /\ tasks' = nt
                    /\ visited' = visited \cup {t.url}
                    /\ links' = now
                    /\ \E lang \in {"en", "other"} :
                          pages_downloaded' =
                              IF ~r.raises /\ r.html /\ save_content(lang)
                              THEN pages_downloaded + 1 ELSE pages_downloaded
                    /\ UNCHANGED stopping
                    /\ IF MayEnqueue(t.depth)
                       THEN IF now.tag # "list"
                            THEN \* `for link in links`: TypeError or UnboundLocalError
                                 /\ raising' = TRUE
                                 /\ pc' = "exit_with"
                                 /\ UNCHANGED <<queue, queued>>
                            ELSE LET e == EnqueueLinks(SelectSeq(now.val, is_valid_doc_url),
                                                       t.depth, queue, queued,
                                                       visited \cup {t.url})
                                 IN  /\ queue' = e.queue
                                     /\ queued' = e.queued
                                     /\ pc' = IF AllYielded(nt) THEN "exit_with" ELSE "collect"
                                     /\ UNCHANGED raising
                       ELSE /\ pc' = IF AllYielded(nt) THEN "exit_with" ELSE "collect"
                            /\ UNCHANGED <<queue, queued, raising>>
    /\ UNCHANGED <<impl, cfg, stop_event, failed_urls, assets_downloaded, doc_links,
                   aux_links, fetched>>
    /\ UNCHANGED offCrawl

\* leaving `with ThreadPoolExecutor(...) as executor`, normally, by break or
\* with an exception
Scraper_ExitWith ==
    /\ impl = "Scraper"
    /\ pc = "exit_with"
    /\ ExecutorShutdownWait
    /\ pc' = IF raising THEN "raised" ELSE "post_batch"
    /\ UNCHANGED <<impl, cfg, stop_event, stopping, queue, tasks, visited, queued,
                   failed_urls, pages_downloaded, assets_downloaded, doc_links,
                   aux_links, links, raising, fetched>>
    /\ UNCHANGED offCrawl

\* the stop check before the delay, and the delay condition
Scraper_PostBatch ==
    /\ impl = "Scraper"
    /\ pc = "post_batch"
    /\ IF stop_event
       THEN /\ stopping' = TRUE
            /\ queue' = <<>>
            /\ pc' = "cleanup"
       ELSE /\ pc' = IF cfg.delay > 0 /\ queue # <<>> /\ ~stopping THEN "sleep" ELSE "while"
            /\ UNCHANGED <<stopping, queue>>
    /\ UNCHANGED <<impl, cfg, stop_event, tasks, visited, queued, failed_urls,
                   pages_downloaded, assets_downloaded, doc_links, aux_links, links,
                   raising, fetched>>
    /\ UNCHANGED offCrawl

\* the cleanup after the loop, create_main_index and the return
Scraper_Cleanup ==
    /\ impl = "Scraper"
    /\ pc = "cleanup"
    /\ pc' = "returned"
    /\ UNCHANGED <<impl, cfg, stop_event, stopping, queue, tasks, visited, queued,
                   failed_urls, pages_downloaded, assets_downloaded, doc_links,
                   aux_links, links, raising, fetched>>
    /\ UNCHANGED offCrawl

CallerNext == StopSet

CrawlerNext ==
    \/ Crawler_Start
    \/ Crawler_LoopHead
    \/ Crawler_CheckStop
    \/ Crawler_Submit
    \/ \E i \in DOMAIN tasks : Crawler_TaskStart(i)
    \/ \E i \in DOMAIN tasks : Crawler_TaskFinish(i)
    \/ \E i \in DOMAIN tasks : Crawler_Collect(i)
    \/ Crawler_ExitWith
    \/ Crawler_Delay
    \/ Crawler_Phase2

ScraperNext ==
    \/ Scraper_Start
    \/ Scraper_LoopHead
    \/ Scraper_CheckStop
    \/ Scraper_Submit
    \/ \E i \in DOMAIN tasks : Scraper_TaskStart(i)
    \/ \E i \in DOMAIN tasks : Scraper_TaskFinish(i)
    \/ \E i \in DOMAIN tasks : Scraper_Collect(i)
    \/ Scraper_ExitWith
    \/ Scraper_PostBatch
    \/ Scraper_Cleanup

AssetNext ==
    \/ \E i \in DOMAIN tasks : AssetStart(i)
    \/ \E i \in DOMAIN tasks : AssetFinish(i)
    \/ \E i \in DOMAIN tasks : AssetsDone(i)

Next == CallerNext \/ SleepDone \/ CrawlerNext \/ ScraperNext

NextAssets == CallerNext \/ SleepDone \/ ScraperNext \/ AssetNext

Spec == Init /\ [][Next]_vars

\* Crawler.crawl is called on a new object whose max_depth lets the pages
\* under the base page enqueue their links
DeepDepth == MaxDepthBound + 1

InitDeep ==
    /\ RetryIdle
    /\ PureIdle
    /\ impl = "Crawler"
    /\ \E c \in Configs(impl, FALSE) :
          /\ c.max_pages = Unlimited
          /\ cfg = [c EXCEPT !.max_depth = DeepDepth]
    /\ CrawlStart

NextDeep == CallerNext \/ SleepDone \/ CrawlerNext

SpecDeep == InitDeep /\ [][NextDeep]_vars

SpecAssets == InitAssets /\ [][NextAssets]_vars

(***************************************************************************)
(* _matches_url_filters and _matches_content_filters (the same code in     *)
(* crawler.py and scraper.py).                                             *)
(***************************************************************************)
Texts == 1..NumTexts

\* the compiled patterns, each the set of texts it is found in
Patterns == SUBSET Texts

PatternLists == SeqsUpTo(Patterns, MaxPatterns)

\* a returned bool, as recorded in a result variable
Returned(b) == IF b THEN "True" ELSE "False"

\* an object with some pattern lists, and a text to filter
InitFilter ==
    /\ WorkerIdle
    /\ PersistIdle
    /\ SiteIdle
    /\ ValidIdle
    /\ BrowserIdle
    /\ UrlIdle
    /\ CatIdle
    /\ f_include \in PatternLists
    /\ f_exclude \in PatternLists
    /\ f_text \in Texts
    /\ f_url_result = "none"
    /\ f_content_result = "none"
    /\ RetryIdle
    /\ CrawlIdle

UrlFilter ==
    /\ f_url_result = "none"
    /\ f_url_result' = Returned(matches_url_filters(f_include, f_exclude, f_text))
    /\ UNCHANGED <<f_include, f_exclude, f_text, f_content_result>>
    /\ UNCHANGED offFilter

ContentFilter ==
    /\ f_content_result = "none"
    /\ f_content_result' = Returned(matches_content_filters(f_include, f_exclude, f_text))
    /\ UNCHANGED <<f_include, f_exclude, f_text, f_url_result>>
    /\ UNCHANGED offFilter

NextFilter == UrlFilter \/ ContentFilter

SpecFilter == InitFilter /\ [][NextFilter]_vars

(***************************************************************************)
(* One crawl() call of an object with a URL filter.                        *)
(***************************************************************************)
\* the sets of URLs the configured exclude pattern matches
UrlExcludes == {{BaseUrl}, {<<"doc", NumDocUrls>>}}

\* crawl() of either class is called on a new object whose URL filter
\* rejects the base URL, or rejects a page of the site; no page cap, no
\* start_urls argument
InitFiltered ==
    /\ RetryIdle
    /\ PureIdle
    /\ impl \in {"Crawler", "Scraper"}
    /\ \E c \in Configs(impl, FALSE), x \in UrlExcludes :
          /\ c.max_pages = Unlimited
          /\ c.start_urls = <<>>
          /\ cfg = [c EXCEPT !.url_exclude = x]
    /\ CrawlStart

SpecFiltered == InitFiltered /\ [][Next]_vars

(***************************************************************************)
(* Several crawl() calls on one object.                                    *)
(***************************************************************************)
\* crawl() has returned and the caller calls it again on the same object,
\* with the stop event cleared: the locals of the call are new, the
\* attributes of the object are what the earlier call left
CrawlAgain ==
    /\ pc = "returned"
    /\ crawl_calls < MaxCalls
    /\ crawl_calls' = crawl_calls + 1
    /\ pc' = "start"
    /\ stop_event' = FALSE
    /\ stopping' = FALSE
    /\ queue' = <<>>
    /\ tasks' = <<>>
    /\ links' = Unbound
    /\ raising' = FALSE
    /\ fetched' = [u \in Urls |-> 0]
    /\ UNCHANGED <<impl, cfg, visited, queued, failed_urls, pages_downloaded,
                   assets_downloaded, doc_links, aux_links>>
    /\ UNCHANGED <<retryVars, pureVars>>

\* crawl() of either class is called on a new object without page cap,
\* start_urls or filter
InitAgain ==
    /\ RetryIdle
    /\ PureIdle
    /\ impl \in {"Crawler", "Scraper"}
    /\ cfg \in {c \in Configs(impl, FALSE) : c.max_pages = Unlimited /\ c.start_urls = <<>>}
    /\ CrawlStart

NextAgain == Next \/ CrawlAgain

SpecAgain == InitAgain /\ [][NextAgain]_vars

(***************************************************************************)
(* The browsers of one crawl() call in browser mode: the page fetch of     *)
(* each task of a batch (DocumentationScraper.download_page,               *)
(* Crawler._download_with_browser and the fallback to the HTTP request)    *)
(* and the ways crawl() ends.  driver.quit() closes the browser.           *)
(***************************************************************************)
BrowserTasks == 1..NumBrowserTasks

\* the driver that the task i of the running batch creates
Driver(i) == <<b_batches, i>>

AllFetched == \A i \in BrowserTasks : b_st[i] = "done"

\* a batch of NumBrowserTasks page fetches is submitted
NewBatch == [i \in BrowserTasks |-> "new"]

\* no page fetch of the batch has read the stop event as set
NotSeen == [i \in BrowserTasks |-> FALSE]

\* no page fetch of the batch has started an HTTP request
NoRequest == [i \in BrowserTasks |-> 0]

InitBrowser ==
    /\ WorkerIdle
    /\ PersistIdle
    /\ SiteIdle
    /\ ValidIdle
    /\ RetryIdle
    /\ CrawlIdle
    /\ FilterIdle
    /\ UrlIdle
    /\ CatIdle
    /\ b_impl \in {"Crawler", "Scraper"}
    /\ b_pc = "batch"
    /\ b_stop = FALSE
    /\ b_enqueue \in BOOLEAN
    /\ b_batches = 1
    /\ b_st = NewBatch
    /\ b_res = [i \in BrowserTasks |-> "none"]
    /\ b_open = {}
    /\ active_browser_instances = {}
    /\ b_passes \in [BrowserTasks -> BOOLEAN]
    /\ b_seen = NotSeen
    /\ b_requests = NoRequest
    /\ b_handed = {}

\* the caller's thread sets the stop event while crawl() runs
B_StopSet ==
    /\ b_pc = "batch"
    /\ ~b_stop
    /\ b_stop' = TRUE
    /\ UNCHANGED <<b_impl, b_pc, b_enqueue, b_batches, b_st, b_res, b_open,
                   active_browser_instances, b_passes, b_seen, b_requests,
                   b_handed>>
    /\ UNCHANGED offBrowser

\* what the page fetch returns when it gives up: ("", "", []) or (None, None)
GaveUp == IF b_impl = "Scraper" THEN "empty" ELSE "None"

\* the stop check at the top of the page fetch
B_Skip(i) ==
    /\ b_st[i] = "new"
    /\ b_stop
    /\ b_st' = [b_st EXCEPT ![i] = "done"]
    /\ b_res' = [b_res EXCEPT ![i] = GaveUp]
    /\ b_seen' = [b_seen EXCEPT ![i] = TRUE]
    /\ UNCHANGED <<b_impl, b_pc, b_stop, b_enqueue, b_batches, b_open,
                   active_browser_instances, b_passes, b_requests, b_handed>>
    /\ UNCHANGED offBrowser

\* webdriver.Chrome(...) and active_browser_instances.append(driver); when
\* Chrome does not start, the fetch falls back to the HTTP request, or
\* (DocumentationScraper, not a WebDriverException) returns ("", "", [])
B_Create(i) ==
    /\ b_st[i] = "new"
    /\ ~b_stop
    /\ \/ /\ b_open' = b_open \cup {Driver(i)}
          /\ active_browser_instances' = active_browser_instances \cup {Driver(i)}
          /\ b_st' = [b_st EXCEPT ![i] = "created"]
          /\ b_res' = b_res
       \/ /\ b_st' = [b_st EXCEPT ![i] = "http"]
          /\ UNCHANGED <<b_res, b_open, active_browser_instances>>
       \/ /\ b_impl = "Scraper"
          /\ b_st' = [b_st EXCEPT ![i] = "done"]
          /\ b_res' = [b_res EXCEPT ![i] = "empty"]
          /\ UNCHANGED <<b_open, active_browser_instances>>
    /\ UNCHANGED <<b_impl, b_pc, b_stop, b_enqueue, b_batches, b_passes, b_seen,
                   b_requests, b_handed>>
    /\ UNCHANGED offBrowser

\* driver.set_page_load_timeout(...): in Crawler inside the try whose finally
\* quits the driver, in DocumentationScraper before that try
B_SetTimeout(i) ==
    /\ b_st[i] = "created"
    /\ \/ /\ b_st' = [b_st EXCEPT ![i] = "try"]
          /\ UNCHANGED <<b_open, active_browser_instances>>
       \/ /\ b_st' = [b_st EXCEPT ![i] = "http"]
          /\ IF b_impl = "Crawler"
             THEN /\ b_open' = b_open \ {Driver(i)}
                  /\ active_browser_instances' = active_browser_instances \ {Driver(i)}
             ELSE UNCHANGED <<b_open, active_browser_instances>>
    /\ UNCHANGED <<b_impl, b_pc, b_stop, b_enqueue, b_batches, b_res, b_passes,
                   b_seen, b_requests, b_handed>>
    /\ UNCHANGED offBrowser

\* what the try block ends with
LoadOutcomes == {"stopped", "page", "error", "nosource"}

\* the try block that loads the page and its finally: every way out quits
\* the driver and removes it from active_browser_instances; the page source
\* is returned as it is, _matches_content_filters is not called on it
B_Load(i) ==
    /\ b_st[i] = "try"
    /\ \E o \in LoadOutcomes :
          /\ o = "stopped" => b_stop
          /\ o = "page" => ~b_stop
          /\ LET falls == o = "error" \/ (b_impl = "Crawler" /\ o # "page")
             IN  /\ b_st' = [b_st EXCEPT ![i] = IF falls THEN "http" ELSE "done"]
                 /\ b_res' = [b_res EXCEPT ![i] =
                                 IF falls THEN "none"
                                 ELSE IF o = "page" THEN "page" ELSE "empty"]
          /\ b_seen' = [b_seen EXCEPT ![i] = @ \/ o = "stopped"]
    /\ b_open' = b_open \ {Driver(i)}
    /\ active_browser_instances' = active_browser_instances \ {Driver(i)}
    /\ UNCHANGED <<b_impl, b_pc, b_stop, b_enqueue, b_batches, b_passes, b_requests,
                   b_handed>>
    /\ UNCHANGED offBrowser

\* DocumentationScraper.download_page reads the stop event before the HTTP
\* request it falls back to; Crawler.download_url does not
ChecksStopBeforeHttp == b_impl = "Scraper"

\* the HTTP request that the fetch falls back to and what follows it: the
\* stop check after the request, then the content filter; a page, a 404
\* (None), or another failure
B_Http(i) ==
    /\ b_st[i] = "http"
    /\ IF b_stop /\ ChecksStopBeforeHttp
       THEN /\ b_res' = [b_res EXCEPT ![i] = GaveUp]
            /\ b_seen' = [b_seen EXCEPT ![i] = TRUE]
            /\ b_requests' = b_requests
       ELSE /\ b_requests' = [b_requests EXCEPT ![i] = @ + 1]
            /\ b_seen' = [b_seen EXCEPT ![i] = @ \/ b_stop]
            /\ \E r \in {"page", "None", GaveUp} :
                  /\ r = "page" => ~b_stop /\ b_passes[i]
                  /\ b_res' = [b_res EXCEPT ![i] = r]
    /\ b_st' = [b_st EXCEPT ![i] = "done"]
    /\ UNCHANGED <<b_impl, b_pc, b_stop, b_enqueue, b_batches, b_open,
                   active_browser_instances, b_passes, b_handed>>
    /\ UNCHANGED offBrowser

\* DocumentationScraper.crawl: `for link in links` with links = None
LinkLoopRaises ==
    /\ b_impl = "Scraper"
    /\ ~b_stop
    /\ b_enqueue
    /\ \E i \in BrowserTasks : b_res[i] = "None"

\* the page fetches of the batch that returned a page
PageTasks == {i \in BrowserTasks : b_res[i] = "page"}

\* the collect loop takes the results of the tasks in S: each page goes to the
\* callback (Crawler) or to save_content (DocumentationScraper) and is
\* counted in pages_downloaded
Hand(S) ==
    b_handed' = b_handed \cup
        {[batch |-> b_batches, task |-> i, passes |-> b_passes[i]] : i \in S}

\* the batch is done and the TypeError of the link loop leaves crawl(); the
\* pages that completed before the failing result were taken
B_Raise ==
    /\ b_pc = "batch"
    /\ AllFetched
    /\ LinkLoopRaises
    /\ b_pc' = "raised"
    /\ \E S \in SUBSET PageTasks : Hand(S)
    /\ UNCHANGED <<b_impl, b_stop, b_enqueue, b_batches, b_st, b_res, b_open,
                   active_browser_instances, b_passes, b_seen, b_requests>>
    /\ UNCHANGED offBrowser

\* the batch is done, links were queued and the loop submits the next batch
B_NextBatch ==
    /\ b_pc = "batch"
    /\ AllFetched
    /\ ~LinkLoopRaises
    /\ ~b_stop
    /\ b_enqueue
    /\ \E i \in BrowserTasks : b_res[i] = "page"
    /\ b_batches < MaxBatches
    /\ b_batches' = b_batches + 1
    /\ b_st' = NewBatch
    /\ b_res' = [i \in BrowserTasks |-> "none"]
    /\ b_passes' \in [BrowserTasks -> BOOLEAN]
    /\ b_seen' = NotSeen
    /\ b_requests' = NoRequest
    /\ Hand(PageTasks)
    /\ UNCHANGED <<b_impl, b_pc, b_stop, b_enqueue, b_open, active_browser_instances>>
    /\ UNCHANGED offBrowser

\* the batch is done and the loop ends: stopping, or the queue is empty;
\* DocumentationScraper's collect loop breaks at its stop check, Crawler's
\* takes every result of the batch
B_LoopEnds ==
    /\ b_pc = "batch"
    /\ AllFetched
    /\ ~LinkLoopRaises
    /\ b_pc' = "cleanup"
    /\ Hand(IF b_impl = "Scraper" /\ b_stop THEN {} ELSE PageTasks)
    /\ UNCHANGED <<b_impl, b_stop, b_enqueue, b_batches, b_st, b_res, b_open,
                   active_browser_instances, b_passes, b_seen, b_requests>>
    /\ UNCHANGED offBrowser

\* _cleanup_browser_instances and the return
cleanup_browser_instances ==
    /\ b_pc = "cleanup"
    /\ b_open' = b_open \ active_browser_instances
    /\ active_browser_instances' = {}
    /\ b_pc' = "returned"
    /\ UNCHANGED <<b_impl, b_stop, b_enqueue, b_batches, b_st, b_res, b_passes,
                   b_seen, b_requests, b_handed>>
    /\ UNCHANGED offBrowser

NextBrowser ==
    \/ B_StopSet
    \/ \E i \in BrowserTasks : B_Skip(i)
    \/ \E i \in BrowserTasks : B_Create(i)
    \/ \E i \in BrowserTasks : B_SetTimeout(i)
    \/ \E i \in BrowserTasks : B_Load(i)
    \/ \E i \in BrowserTasks : B_Http(i)
    \/ B_Raise
    \/ B_NextBatch
    \/ B_LoopEnds
    \/ cleanup_browser_instances

SpecBrowser == InitBrowser /\ [][NextBrowser]_vars

(***************************************************************************)
(* The normalisation of the query string of a link: utils.clean_url, which *)
(* is all that Crawler.extract_links applies, and                          *)
(* DocumentationScraper._normalize_url followed by clean_url, which is     *)
(* what DocumentationScraper.extract_links applies.                        *)
(***************************************************************************)
\* content_params of _normalize_url
AllowList == {"lang", "version", "v", "platform"}

\* exclude_params of clean_url
ExcludeParams == {"utm_source", "utm_medium", "utm_campaign", "utm_term", "utm_content",
                  "fbclid", "gclid", "ref", "source", "mc_cid", "mc_eid", "tracking",
                  "__hstc", "__hssc", "__hsfp", "_ga", "_gl", "_hsenc", "_hsmi"}

\* the keys and values of the queries that the model runs
ParamKeys == {"lang", "v", "utm_source", "page"}
ParamValues == {"", "a"}
Queries == SeqsUpTo(ParamKeys \X ParamValues, MaxParams)

\* the elements of a sequence in the order of their first occurrence
RECURSIVE Dedup(_)
Dedup(s) ==
    IF s = <<>> THEN <<>>
    ELSE <<Head(s)>> \o SelectSeq(Dedup(Tail(s)), LAMBDA x : x # Head(s))

\* urllib.parse.parse_qs: a dict key -> list of values in the order of the
\* first occurrence of the keys; a parameter with a blank value is dropped
parse_qs(q) ==
    LET nb == SelectSeq(q, LAMBDA p : p[2] # "")
        ks == Dedup([i \in DOMAIN nb |-> nb[i][1]])
        vals(k) == LET sel == SelectSeq(nb, LAMBDA p : p[1] = k)
                   IN  [j \in DOMAIN sel |-> sel[j][2]]
    IN  [i \in DOMAIN ks |-> <<ks[i], vals(ks[i])>>]

\* urllib.parse.urlencode(params, doseq=True): key=value for each value of
\* each key
RECURSIVE urlencode(_)
urlencode(params) ==
    IF params = <<>> THEN <<>>
    ELSE LET k == Head(params)[1]
             v == Head(params)[2]
         IN  [j \in DOMAIN v |-> <<k, v[j]>>] \o urlencode(Tail(params))

\* the query of clean_url(url)
clean_url(q) ==
    urlencode(SelectSeq(parse_qs(q), LAMBDA e : e[1] \notin ExcludeParams))

\* the query of DocumentationScraper._normalize_url(url, base_url)
Scraper_normalize_url(q) ==
    urlencode(SelectSeq(parse_qs(q), LAMBDA e : e[1] \in AllowList))

InitUrl ==
    /\ WorkerIdle
    /\ PersistIdle
    /\ SiteIdle
    /\ ValidIdle
    /\ RetryIdle
    /\ CrawlIdle
    /\ FilterIdle
    /\ BrowserIdle
    /\ CatIdle
    /\ u_query \in Queries
    /\ u_crawler_done = FALSE
    /\ u_crawler = <<>>
    /\ u_scraper_done = FALSE
    /\ u_scraper = <<>>

\* Crawler.extract_links: cleaned_url = clean_url(normalized_url)
Crawler_Normalize ==
    /\ ~u_crawler_done
    /\ u_crawler' = clean_url(u_query)
    /\ u_crawler_done' = TRUE
    /\ UNCHANGED <<u_query, u_scraper_done, u_scraper>>
    /\ UNCHANGED offUrl

\* DocumentationScraper.extract_links: _normalize_url, then clean_url
Scraper_Normalize ==
    /\ ~u_scraper_done
    /\ u_scraper' = clean_url(Scraper_normalize_url(u_query))
    /\ u_scraper_done' = TRUE
    /\ UNCHANGED <<u_query, u_crawler_done, u_crawler>>
    /\ UNCHANGED offUrl

NextUrl == Crawler_Normalize \/ Scraper_Normalize

SpecUrl == InitUrl /\ [][NextUrl]_vars

(***************************************************************************)
(* The classification of a URL: Crawler.categorize_url and                 *)
(* utils.categorize_url.  A URL is its host labels, the segments of its    *)
(* path and whether the path ends with a slash; a segment is a name, with  *)
(* its extension if it has one.                                            *)
(***************************************************************************)
\* the host of the base URL https://docs.example.com
BaseHost == <<"docs", "example", "com">>

Hosts == {BaseHost, <<"other", "com">>, <<"api", "example", "com">>,
          <<"blog", "example", "com">>}

\* the path segments that the model runs, and their extensions
Segments == {"docs", "pricing", "intro", "img", "v2", "x", "logo.png", "page.html"}
Ext(seg) == CASE seg = "logo.png" -> "png"
              [] seg = "page.html" -> "html"
              [] OTHER -> ""

Paths == SeqsUpTo(Segments, MaxSegments)
CatUrls == {NilUrl} \cup [nil : {FALSE}, host : Hosts, segs : Paths, slash : BOOLEAN]
BasePaths == {<<>>, <<"v2">>}

\* `"/name/" in path`: a segment of the path is the name and a slash follows
InPath(name, url) ==
    \E k \in DOMAIN url.segs :
        url.segs[k] = name /\ (k < Len(url.segs) \/ url.slash)

\* get_file_extension: the extension of the last component of the path
get_file_extension(url) ==
    IF url.segs = <<>> \/ url.slash THEN "" ELSE Ext(url.segs[Len(url.segs)])

asset_extensions == {"jpg", "jpeg", "png", "gif", "svg", "webp", "ico", "bmp",
                     "css", "scss", "less", "js", "mjs",
                     "woff", "woff2", "ttf", "eot", "otf",
                     "pdf", "zip", "xml", "json"}
asset_patterns == {"assets", "static", "images", "img", "css", "js", "fonts"}

is_asset_url(url) ==
    \/ get_file_extension(url) \in asset_extensions
    \/ \E p \in asset_patterns : InPath(p, url)

DOC_PATTERNS == {"docs", "doc", "documentation", "guide", "guides", "reference", "api",
                 "manual", "tutorial", "get-started", "learn", "howto", "usage",
                 "examples", "quickstart", "sdk", "cli", "faq", "help"}

AUX_PATTERNS == {"account", "profile", "settings", "user", "pricing", "billing",
                 "subscription", "payment", "plans", "about", "company", "team",
                 "contact", "support", "legal", "terms", "privacy", "blog", "news"}

\* the subdomain names that Crawler.categorize_url takes for documentation
DocSubdomains == {"docs", "documentation", "developer", "api", "guide", "help",
                  "support", "manual", "learn"}

\* '.'.join(parts[-2:])
MainDomain(host) == SubSeq(host, Len(host) - 1, Len(host))

\* the URL is on a documentation-named subdomain of the main domain of the base
DocSubdomain(url) ==
    /\ Len(url.host) >= 2
    /\ MainDomain(url.host) = MainDomain(BaseHost)
    /\ \E k \in 1..(Len(url.host) - 2) : url.host[k] \in DocSubdomains

\* path.startswith("/base_path/"), or the first segments of the path are
\* base_path_segments
Continuation(url, base_path) ==
    /\ base_path # <<>>
    /\ Len(url.segs) >= Len(base_path)
    /\ SubSeq(url.segs, 1, Len(base_path)) = base_path

\* re.search(r'\.(html|htm|md|pdf|txt)$', path)
DocumentLike(url) ==
    /\ url.segs # <<>>
    /\ ~url.slash
    /\ Ext(url.segs[Len(url.segs)]) \in {"html", "htm", "md", "pdf", "txt"}

Crawler_categorize_url(url, base_path) ==
    IF url.nil THEN "invalid"
    ELSE IF is_asset_url(url) THEN "asset"
    ELSE IF url.host # BaseHost
         THEN IF DocSubdomain(url) THEN "doc" ELSE "external"
    ELSE IF \E p \in DOC_PATTERNS : InPath(p, url) THEN "doc"
    ELSE IF Continuation(url, base_path) THEN "doc"
    ELSE IF \E p \in AUX_PATTERNS : InPath(p, url) THEN "aux"
    ELSE IF DocumentLike(url) THEN "doc"
    ELSE "aux"

\* utils.is_same_domain: the same host, or the same main domain
is_same_domain(url) ==
    \/ url.host = BaseHost
    \/ Len(url.host) >= 2 /\ MainDomain(url.host) = MainDomain(BaseHost)

utils_categorize_url(url) ==
    IF url.nil THEN "invalid"
    ELSE IF is_asset_url(url) THEN "asset"
    ELSE IF ~is_same_domain(url) THEN "external"
    ELSE IF \E p \in DOC_PATTERNS : InPath(p, url) THEN "doc"
    ELSE IF \E p \in AUX_PATTERNS : InPath(p, url) THEN "aux"
    ELSE "doc"

InitCat ==
    /\ WorkerIdle
    /\ PersistIdle
    /\ SiteIdle
    /\ ValidIdle
    /\ RetryIdle
    /\ CrawlIdle
    /\ FilterIdle
    /\ BrowserIdle
    /\ UrlIdle
    /\ c_url \in CatUrls
    /\ c_base_path \in BasePaths
    /\ c_crawler = "none"
    /\ c_utils = "none"

Crawler_Categorize ==
    /\ c_crawler = "none"
    /\ c_crawler' = Crawler_categorize_url(c_url, c_base_path)
    /\ UNCHANGED <<c_url, c_base_path, c_utils>>
    /\ UNCHANGED offCat

Utils_Categorize ==
    /\ c_utils = "none"
    /\ c_utils' = utils_categorize_url(c_url)
    /\ UNCHANGED <<c_url, c_base_path, c_crawler>>
    /\ UNCHANGED offCat

NextCat == Crawler_Categorize \/ Utils_Categorize

SpecCat == InitCat /\ [][NextCat]_vars

(***************************************************************************)
(* The validation of a URL: utils.is_valid_url and utils.validate_url.  A  *)
(* value is what urlparse splits it into: scheme, network location (host   *)
(* and port), the segments of the path with its trailing slashes, query.   *)
(***************************************************************************)
Schemes == {"", "http", "https", "ftp", "javascript"}
HostNames == {"", "example.com"}
Ports == {"", "8000"}
ValidSegments == SeqsUpTo({"path"}, 1)
QueryStrings == {"", "query=param"}

Values == [scheme : Schemes, host : HostNames, port : Ports, segs : ValidSegments,
           slashes : 0..MaxSlashes, query : QueryStrings]

\* urlparse(url).netloc is not empty: a host, or a port after the colon
HasNetloc(url) == url.host # "" \/ url.port # ""

is_valid_url(url) ==
    IF url = EmptyUrl THEN FALSE
    ELSE IF url.scheme = "" \/ ~HasNetloc(url) THEN FALSE
    ELSE IF url.scheme \notin {"http", "https"} THEN FALSE
    ELSE IF url.scheme \in {"javascript", "data", "file"} THEN FALSE
    ELSE TRUE

\* parsed._replace(path=parsed.path.rstrip('/')).geturl()
StripSlashes_Keep(url) == url

StripSlashes(url) == [url EXCEPT !.slashes = 0]

validate_url(value) ==
    IF value = EmptyUrl THEN [kind |-> "None", url |-> EmptyUrl]
    ELSE IF ~is_valid_url(value) THEN [kind |-> "BadParameter", url |-> EmptyUrl]
    ELSE [kind |-> "url", url |-> StripSlashes(value)]

InitValid ==
    /\ WorkerIdle
    /\ PersistIdle
    /\ SiteIdle
    /\ RetryIdle
    /\ CrawlIdle
    /\ FilterIdle
    /\ BrowserIdle
    /\ UrlIdle
    /\ CatIdle
    /\ v_url \in Values
    /\ v_is_valid = "none"
    /\ v_validated = NotValidated

IsValidUrl ==
    /\ v_is_valid = "none"
    /\ v_is_valid' = Returned(is_valid_url(v_url))
    /\ UNCHANGED <<v_url, v_validated>>
    /\ UNCHANGED offValid

ValidateUrl ==
    /\ v_validated = NotValidated
    /\ v_validated' = validate_url(v_url)
    /\ UNCHANGED <<v_url, v_is_valid>>
    /\ UNCHANGED offValid

NextValid == IsValidUrl \/ ValidateUrl

SpecValid == InitValid /\ [][NextValid]_vars

(***************************************************************************)
(* One Crawler.crawl call in interactive mode.                             *)
(***************************************************************************)
\* Crawler.crawl(interactive=True) is called on a new object; aux_decision
\* is what the caller answers when asked about the auxiliary pages
InitInteractive ==
    /\ RetryIdle
    /\ PureIdle
    /\ impl = "Crawler"
    /\ \E c \in Configs(impl, FALSE), d \in BOOLEAN :
          cfg = [c EXCEPT !.interactive = TRUE, !.aux_decision = d]
    /\ CrawlStart

NextInteractive == CallerNext \/ SleepDone \/ CrawlerNext

SpecInteractive == InitInteractive /\ [][NextInteractive]_vars

(***************************************************************************)
(* The crawl of a fixed site.  The base page links to its first sections,  *)
(* a section fails with a server error or links to its page or to nothing, *)
(* a page links to the appendix, to an auxiliary page or to nothing.  The  *)
(* fetch tasks of a batch complete in any order; no stop event is set.     *)
(***************************************************************************)
Sections == 1..NumSections

\* the page of section i
PageOf(i) == NumSections + i

Appendix == 2 * NumSections + 1

SiteDocUrls == {<<"doc", n>> : n \in 0..Appendix}

AuxPage == <<"aux", 1>>

SiteUrls == SiteDocUrls \cup {AuxPage}

\* what a page answers: a server error, or a page with links
Fails == [fails |-> TRUE, links |-> <<>>]
Answers(l) == [fails |-> FALSE, links |-> l]

SectionKinds == {"leaf", "page", "5xx"}
PageKinds == {"leaf", "aux", "appendix"}

\* the site whose base page links to the first k sections
SiteOf(k, sec, pg) ==
    [u \in SiteUrls |->
        IF u = BaseUrl THEN Answers([i \in 1..k |-> <<"doc", i>>])
        ELSE IF u[1] = "doc" /\ u[2] \in Sections
        THEN IF sec[u[2]] = "5xx" THEN Fails
             ELSE IF sec[u[2]] = "page" THEN Answers(<< <<"doc", PageOf(u[2])>> >>)
             ELSE Answers(<<>>)
        ELSE IF u[1] = "doc" /\ u[2] # Appendix
        THEN LET kind == pg[u[2] - NumSections]
             IN  IF kind = "aux" THEN Answers(<<AuxPage>>)
                 ELSE IF kind = "appendix" THEN Answers(<< <<"doc", Appendix>> >>)
                 ELSE Answers(<<>>)
        ELSE Answers(<<>>)]

SiteConfigs ==
    [max_pages : {Unlimited, SitePageCap},
     max_depth : 1..SiteMaxDepth,
     concurrent_requests : 1..MaxConcurrent]

\* the state after the initialisation of crawl(): the base URL is queued
SiteStart ==
    [NoCrawl EXCEPT !.queue = << <<BaseUrl, 0>> >>, !.queued = {BaseUrl}]

InitSite ==
    /\ WorkerIdle
    /\ PersistIdle
    /\ RetryIdle
    /\ CrawlIdle
    /\ FilterIdle
    /\ BrowserIdle
    /\ UrlIdle
    /\ CatIdle
    /\ ValidIdle
    /\ s_impl \in {"Crawler", "Scraper"}
    /\ \E k \in 0..NumSections, sec \in [Sections -> SectionKinds],
          pg \in [Sections -> PageKinds] :
          s_site = SiteOf(k, sec, pg)
    /\ s_cfg \in SiteConfigs
    /\ s_crawl = SiteStart
    /\ s_batch = {}
    /\ s_pc = "while"
    /\ s_dequeued = <<>>

\* `while queue and (self.max_pages is None or self.pages_downloaded <
\* self.max_pages)`
SiteLoopCondition(c, st) ==
    /\ st.queue # <<>>
    /\ (c.max_pages = Unlimited \/ st.pages_downloaded < c.max_pages)

\* Crawler.crawl takes the result of the entry e: the URL is visited; a page
\* is counted, its links go to the link sets, and below max_depth its
\* documentation links are appended to the queue
Crawler_TakeResult(site, c, st, e) ==
    LET ans == site[e[1]]
        vis == st.visited \cup {e[1]}
        docs == SelectSeq(ans.links, LAMBDA u : categorize_url(u) = "doc")
        auxs == SelectSeq(ans.links, LAMBDA u : categorize_url(u) = "aux")
        q == IF e[2] < c.max_depth
             THEN EnqueueLinks(docs, e[2], st.queue, st.queued, vis)
             ELSE [queue |-> st.queue, queued |-> st.queued]
    IN  IF ans.fails
        THEN [st EXCEPT !.visited = vis]
        ELSE [st EXCEPT !.visited = vis,
                        !.pages_downloaded = @ + 1,
                        !.doc_links = @ \cup Range(docs),
                        !.aux_links = @ \cup Range(auxs),
                        !.queue = q.queue,
                        !.queued = q.queued]

\* DocumentationScraper.crawl takes the result of the entry e: the URL is
\* visited; future.result() raises for a server error and leaves `links` as
\* it was; save_content fails, so nothing is counted; below max_depth the
\* loop goes through `links`
Scraper_TakeResult(site, c, st, e) ==
    LET ans == site[e[1]]
        vis == st.visited \cup {e[1]}
        now == IF ans.fails THEN st.links ELSE LinkList(ans.links)
    IN  IF e[2] < c.max_depth
        THEN IF now.tag # "list"
             THEN [st EXCEPT !.visited = vis, !.links = now, !.raising = TRUE]
             ELSE LET q == EnqueueLinks(now.val, e[2], st.queue, st.queued, vis)
                  IN  [st EXCEPT !.visited = vis, !.links = now,
                                 !.queue = q.queue, !.queued = q.queued]
        ELSE [st EXCEPT !.visited = vis, !.links = now]

TakeResult(i, site, c, st, e) ==
    IF i = "Crawler" THEN Crawler_TakeResult(site, c, st, e)
    ELSE Scraper_TakeResult(site, c, st, e)

\* the loop condition holds: the batch is dequeued from the front of the
\* queue and its fetch tasks are submitted
Site_Submit ==
    /\ s_pc = "while"
    /\ SiteLoopCondition(s_cfg, s_crawl)
    /\ LET n == Min(s_cfg.concurrent_requests, Len(s_crawl.queue))
           batch == SubSeq(s_crawl.queue, 1, n)
       IN  /\ s_crawl' = [s_crawl EXCEPT !.queue = SubSeq(@, n + 1, Len(@))]
           /\ s_batch' = Range(batch)
           /\ s_dequeued' = s_dequeued \o [k \in 1..n |-> batch[k][2]]
    /\ s_pc' = "collect"
    /\ UNCHANGED <<s_impl, s_site, s_cfg>>
    /\ UNCHANGED offSite

\* as_completed yields the task of one entry of the batch, whichever it is
Site_Collect(e) ==
    /\ s_pc = "collect"
    /\ e \in s_batch
    /\ LET st == TakeResult(s_impl, s_site, s_cfg, s_crawl, e)
       IN  /\ s_crawl' = st
           /\ s_batch' = s_batch \ {e}
           /\ s_pc' = IF st.raising THEN "raised"
                      ELSE IF s_batch = {e} THEN "while" ELSE "collect"
    /\ UNCHANGED <<s_impl, s_site, s_cfg, s_dequeued>>
    /\ UNCHANGED offSite

\* the loop condition fails: the clean-up and the return of the tally
Site_Return ==
    /\ s_pc = "while"
    /\ ~SiteLoopCondition(s_cfg, s_crawl)
    /\ s_pc' = "returned"
    /\ UNCHANGED <<s_impl, s_site, s_cfg, s_crawl, s_batch, s_dequeued>>
    /\ UNCHANGED offSite

NextSite ==
    \/ Site_Submit
    \/ \E e \in s_batch : Site_Collect(e)
    \/ Site_Return

SpecSite == InitSite /\ [][NextSite]_vars

(***************************************************************************)
(* The collect loop and the persistence of the pages of a batch: the page  *)
(* callback of Crawler.crawl, save_content of DocumentationScraper.crawl.  *)
(***************************************************************************)
\* the results of the fetch tasks of a batch: a page, or nothing
BatchResults == SeqsUpTo({"page", "none"}, MaxResults) \ {<<>>}

InitPersist ==
    /\ WorkerIdle
    /\ RetryIdle
    /\ CrawlIdle
    /\ FilterIdle
    /\ BrowserIdle
    /\ UrlIdle
    /\ CatIdle
    /\ ValidIdle
    /\ SiteIdle
    /\ p_impl \in {"Crawler", "Scraper"}
    /\ p_batch \in BatchResults
    /\ p_persist = "none"
    /\ p_pages_downloaded = 0
    /\ p_progress = 0
    /\ p_log = 0
    /\ p_pc = "collect"

\* the page callback returns or raises
CallbackOutcomes == {"returns", "raises"}

\* a loop that counts the page before it calls the page callback
Crawler_Persist_CountFirst(cb) ==
    [ok |-> cb = "returns", counted |-> TRUE, progress |-> cb = "returns"]

\* Crawler.crawl: callback(url, html_content, links), then
\* self.pages_downloaded += 1, then progress_callback; an exception of the
\* callback leaves the try block for `except Exception`, which logs it
Crawler_Persist(cb) ==
    [ok |-> cb = "returns", counted |-> cb = "returns", progress |-> cb = "returns"]

\* DocumentationScraper.crawl: success = self.save_content(...); `if
\* success:` the page is counted and progress_callback is called;
\* save_content logs why it returns False
Scraper_Persist(lang) ==
    LET success == save_content(lang)
    IN  [ok |-> success, counted |-> success, progress |-> success]

\* one iteration of the as_completed loop of a batch
Persist_Take ==
    /\ p_pc = "collect"
    /\ p_batch # <<>>
    /\ p_batch' = Tail(p_batch)
    /\ IF Head(p_batch) = "none"
       THEN /\ p_persist' = "none"
            /\ UNCHANGED <<p_pages_downloaded, p_progress, p_log>>
       ELSE \E cb \in CallbackOutcomes, lang \in {"en", "other"} :
               LET p == IF p_impl = "Crawler" THEN Crawler_Persist(cb)
                        ELSE Scraper_Persist(lang)
               IN  /\ p_persist' = IF p.ok THEN "ok" ELSE "failed"
                   /\ p_pages_downloaded' = p_pages_downloaded + IF p.counted THEN 1 ELSE 0
                   /\ p_progress' = p_progress + IF p.progress THEN 1 ELSE 0
                   /\ p_log' = p_log + IF p.ok THEN 0 ELSE 1
    /\ UNCHANGED <<p_impl, p_pc>>
    /\ UNCHANGED offPersist

\* as_completed is exhausted: the loop over the batch ends
Persist_Done ==
    /\ p_pc = "collect"
    /\ p_batch = <<>>
    /\ p_pc' = "done"
    /\ UNCHANGED <<p_impl, p_batch, p_persist, p_pages_downloaded, p_progress, p_log>>
    /\ UNCHANGED offPersist

NextPersist == Persist_Take \/ Persist_Done

SpecPersist == InitPersist /\ [][NextPersist]_vars

(***************************************************************************)
(* A crawl in which the thread of crawl() and the worker threads keep      *)
(* running: every fetch call returns and every sleep ends.                 *)
(***************************************************************************)
SpecLive == Init /\ [][Next]_vars /\ WF_vars(SleepDone \/ CrawlerNext \/ ScraperNext)

(***************************************************************************)
(* download_assets and its worker threads. Every page fetch task that finds *)
(* assets opens a pool of its own; `self.assets_downloaded += 1` is a load  *)
(* of the attribute and a store of the sum, with no lock around them, and   *)
(* the interpreter may run another thread between the two.                  *)
(***************************************************************************)
\* a worker before its pool has run it; reg is the value its `+=` has loaded
NewWorker == [st |-> "waiting", reg |-> 0]

\* crawl() has reset self.assets_downloaded and has submitted a batch of
\* NumDocUrls pages, each with up to MaxAssets assets
InitWorker ==
    /\ RetryIdle
    /\ CrawlIdle
    /\ FilterIdle
    /\ BrowserIdle
    /\ UrlIdle
    /\ CatIdle
    /\ ValidIdle
    /\ SiteIdle
    /\ PersistIdle
    /\ w_concurrent \in 1..MaxConcurrent
    /\ w_pages = [p \in 1..NumDocUrls |-> "pending"]
    /\ \E n \in [1..NumDocUrls -> 0..MaxAssets] :
          w_work = [p \in 1..NumDocUrls |-> [a \in 1..n[p] |-> NewWorker]]
    /\ w_assets_downloaded = 0
    /\ w_saved = 0
    /\ w_pc = "crawl"

\* the workers of the pool of page p that are running
InPool(p) ==
    Cardinality({a \in DOMAIN w_work[p] : w_work[p][a].st \in {"running", "saved", "loaded"}})

\* a worker of the page pool runs download_page of page p up to `if assets:
\* self.download_assets(assets)`
DownloadAssets_Begin(p) ==
    /\ w_pc = "crawl"
    /\ w_pages[p] = "pending"
    /\ Cardinality({q \in DOMAIN w_pages : w_pages[q] = "assets"}) < w_concurrent
    /\ w_pages' = [w_pages EXCEPT ![p] = IF w_work[p] = <<>> THEN "done" ELSE "assets"]
    /\ UNCHANGED <<w_concurrent, w_work, w_assets_downloaded, w_saved, w_pc>>
    /\ UNCHANGED offWorker

\* ThreadPoolExecutor(max_workers=self.concurrent_requests): a thread of the
\* pool of page p starts download_asset_worker(url)
Worker_Take(p, a) ==
    /\ w_pages[p] = "assets"
    /\ w_work[p][a].st = "waiting"
    /\ InPool(p) < w_concurrent
    /\ w_work' = [w_work EXCEPT ![p][a].st = "running"]
    /\ UNCHANGED <<w_concurrent, w_pages, w_assets_downloaded, w_saved, w_pc>>
    /\ UNCHANGED offWorker

\* _download_with_retries and the write of the file: done, or an exception
\* that `except Exception` turns into `return False`
Worker_Save(p, a) ==
    /\ w_work[p][a].st = "running"
    /\ \E saved \in BOOLEAN :
          /\ w_work' = [w_work EXCEPT ![p][a].st = IF saved THEN "saved" ELSE "done"]
          /\ w_saved' = IF saved THEN w_saved + 1 ELSE w_saved
    /\ UNCHANGED <<w_concurrent, w_pages, w_assets_downloaded, w_pc>>
    /\ UNCHANGED offWorker

\* `self.assets_downloaded += 1`: the load of the attribute
Worker_Load(p, a) ==
    /\ w_work[p][a].st = "saved"
    /\ w_work' = [w_work EXCEPT ![p][a].st = "loaded", ![p][a].reg = w_assets_downloaded]
    /\ UNCHANGED <<w_concurrent, w_pages, w_assets_downloaded, w_saved, w_pc>>
    /\ UNCHANGED offWorker

\* `self.assets_downloaded += 1`: the store of the loaded value + 1, then
\* progress_callback and `return True`
Worker_Store(p, a) ==
    /\ w_work[p][a].st = "loaded"
    /\ w_assets_downloaded' = w_work[p][a].reg + 1
    /\ w_work' = [w_work EXCEPT ![p][a].st = "done"]
    /\ UNCHANGED <<w_concurrent, w_pages, w_saved, w_pc>>
    /\ UNCHANGED offWorker

\* concurrent.futures.wait(futures) returns, download_assets and
\* download_page return
DownloadAssets_Wait(p) ==
    /\ w_pages[p] = "assets"
    /\ \A a \in DOMAIN w_work[p] : w_work[p][a].st = "done"
    /\ w_pages' = [w_pages EXCEPT ![p] = "done"]
    /\ UNCHANGED <<w_concurrent, w_work, w_assets_downloaded, w_saved, w_pc>>
    /\ UNCHANGED offWorker

\* every page task of the crawl is done: crawl() returns
Worker_CrawlReturns ==
    /\ w_pc = "crawl"
    /\ \A p \in DOMAIN w_pages : w_pages[p] = "done"
    /\ w_pc' = "returned"
    /\ UNCHANGED <<w_concurrent, w_pages, w_work, w_assets_downloaded, w_saved>>
    /\ UNCHANGED offWorker

NextWorker ==
    \/ \E p \in DOMAIN w_pages : DownloadAssets_Begin(p)
    \/ \E p \in DOMAIN w_work : \E a \in DOMAIN w_work[p] : Worker_Take(p, a)
    \/ \E p \in DOMAIN w_work : \E a \in DOMAIN w_work[p] : Worker_Save(p, a)
    \/ \E p \in DOMAIN w_work : \E a \in DOMAIN w_work[p] : Worker_Load(p, a)
    \/ \E p \in DOMAIN w_work : \E a \in DOMAIN w_work[p] : Worker_Store(p, a)
    \/ \E p \in DOMAIN w_pages : DownloadAssets_Wait(p)
    \/ Worker_CrawlReturns

SpecWorker == InitWorker /\ [][NextWorker]_vars

(***************************************************************************)
(* Properties.                                                             *)
(***************************************************************************)

\* C1: with max_pages = N, pages_downloaded <= N in every reachable state of
\* a crawl, whatever the concurrency limit.
C1_PageCap == cfg.max_pages # Unlimited => pages_downloaded <= cfg.max_pages

\* C2: within one crawl() call no URL is submitted to the page fetch more
\* than once, also when the start list names a URL more than once.
C2_FetchedOnce == \A u \in Urls : fetched[u] <= 1

\* the depths of the frontier entries, in the queue or taken into the batch
FrontierDepths == {queue[k][2] : k \in DOMAIN queue} \cup {tasks[i].depth : i \in DOMAIN tasks}

\* C3: every frontier entry has a depth in 0..max_depth: the links of a page
\* of depth d are enqueued only when d < max_depth, with depth d + 1.
C3_DepthBound == \A d \in FrontierDepths : 0 <= d /\ d <= cfg.max_depth

\* a crawl of the scraper with max_depth = 1 took a page of depth 1 and left
\* a new link of it out of the queue
C3_Witness ==
    /\ impl = "Scraper"
    /\ cfg.max_depth = 1
    /\ \E i \in DOMAIN tasks : tasks[i].depth = 1 /\ tasks[i].yielded
    /\ links.tag = "list"
    /\ \E k \in DOMAIN links.val : links.val[k] \notin visited \cup queued

\* C4: once the stop event is set the crawl loop submits no new batch, at
\* whatever point of the loop the event was set.
C4_NoSubmitAfterStop == [][stop_event => ~(pc = "submit" /\ pc' = "collect")]_vars

\* the URLs that are classified as auxiliary
AuxUrls == {u \in Urls : categorize_url(u) = "aux"}

\* C7: with interactive = false no auxiliary link is enqueued in the
\* frontier or fetched.
C7_NoAuxFetched ==
    ~cfg.interactive =>
        /\ \A k \in DOMAIN queue : queue[k][1] \notin AuxUrls
        /\ \A u \in AuxUrls : fetched[u] = 0

\* C8: no outcome of the fetch of one page makes crawl() raise.
C8_NeverRaises == pc # "raised"

\* the page fetches in flight: the tasks a worker thread of the page pool runs
PagesInFlight == Cardinality({i \in DOMAIN tasks : tasks[i].st \in {"running", "assets"}})

RECURSIVE SumArun(_)
SumArun(t) == IF t = <<>> THEN 0 ELSE Head(t).arun + SumArun(Tail(t))

\* the asset fetches in flight, over every asset pool
AssetsInFlight == SumArun(tasks)

\* C9: at most concurrent_requests page fetches and at most
\* concurrent_requests asset fetches are in flight at any moment.
C9_InFlightBound ==
    /\ PagesInFlight <= cfg.concurrent_requests
    /\ AssetsInFlight <= cfg.concurrent_requests

\* the positions of crawl() after the `with ThreadPoolExecutor` block of a batch
AfterBatch == {"delay", "post_batch", "sleep", "while", "check", "submit",
               "phase2", "cleanup", "returned", "raised"}

\* C10: when the processing of a batch has ended, normally or by
\* cancellation, no task of the batch is pending or running.
C10_BatchDrained ==
    pc \in AfterBatch => \A i \in DOMAIN tasks : tasks[i].st \in {"done", "cancelled"}

\* a batch was left by the break on the stop event, with a task the loop
\* never collected and a task it cancelled or collected
C10_Witness ==
    /\ pc = "post_batch"
    /\ stopping
    /\ \E i \in DOMAIN tasks : tasks[i].st = "done" /\ ~tasks[i].yielded
    /\ \E i \in DOMAIN tasks : tasks[i].yielded

RetryDone == r_pc \in {"returned", "raised"}

\* the script fails transiently exactly k times and then succeeds
FailsThenSucceeds(k) ==
    /\ k + 1 <= Len(r_script)
    /\ \A i \in 1..k : r_script[i] \in Transient
    /\ r_script[k + 1] = "ok"

\* C5: a URL whose every fetch answers 404 is attempted exactly once, for
\* every retry count, and ends as a terminal "not found" failure.
C5_NotFoundNoRetry ==
    (RetryDone /\ r_retries >= 1 /\ \A i \in DOMAIN r_script : r_script[i] = "404")
        => (r_calls = 1 /\ r_pc = "raised" /\ r_exc = "404")

WorkerStep ==
    /\ pc' = pc
    /\ DOMAIN tasks' = DOMAIN tasks
    /\ \E i \in DOMAIN tasks :
          <<tasks'[i].st, tasks'[i].apend, tasks'[i].arun>>
              # <<tasks[i].st, tasks[i].apend, tasks[i].arun>>

\* C11: the crawl state is written only by the thread that runs the crawl
\* loop: no step of a worker thread changes visited, queued, failed_urls, the
\* category sets or the counters.
C11_WorkersWriteNothing ==
    [][WorkerStep => UNCHANGED <<visited, queued, failed_urls, doc_links, aux_links,
                                 pages_downloaded, assets_downloaded>>]_vars

\* C12: when crawl() returns, every URL of the last batch whose fetch ended
\* in a terminal failure (404, or an error on the last attempt) is in
\* failed_urls with a description.
C12_FailuresRecorded ==
    pc = "returned" =>
        \A i \in DOMAIN tasks : tasks[i].failed => failed_urls[tasks[i].url] # ""

\* the decision of the specification: allowed iff (no include pattern is
\* configured or one matches) and no exclude pattern matches
FilterAllows ==
    /\ f_include = <<>> \/ \E i \in DOMAIN f_include : f_text \in f_include[i]
    /\ \A i \in DOMAIN f_exclude : f_text \notin f_exclude[i]

\* C13: the URL filter and the content filter both allow the input iff (no
\* include pattern is configured or at least one matches) and no exclude
\* pattern matches; an exclude match rejects even when an include matches.
C13_FilterDecision ==
    /\ f_url_result # "none" => f_url_result = Returned(FilterAllows)
    /\ f_content_result # "none" => f_content_result = Returned(FilterAllows)

\* both filters rejected a text that an include pattern and an exclude
\* pattern match
C13_Witness ==
    /\ any_search(f_include, f_text)
    /\ any_search(f_exclude, f_text)
    /\ f_url_result = "False"
    /\ f_content_result = "False"

\* the loop takes the result of a task whose page the content filter rejected
CollectsFiltered(i) ==
    /\ i \in DOMAIN tasks'
    /\ tasks[i].filtered
    /\ ~tasks[i].yielded
    /\ tasks'[i].yielded

\* the links the URL filter rejects (the start URL is no link)
RejectedLinks == cfg.url_exclude \ Range(InitialUrls)

\* C14: a page rejected by the content filter is not counted, not recorded
\* in failed_urls and not put back on the queue; a link rejected by the URL
\* filter is never fetched, counted or recorded in failed_urls.
C14_FilteredDropped ==
    [][/\ \A i \in DOMAIN tasks :
            CollectsFiltered(i) =>
                /\ pages_downloaded' = pages_downloaded
                /\ failed_urls'[tasks[i].url] = ""
                /\ \A k \in DOMAIN queue' : queue'[k][1] # tasks[i].url
       /\ \A u \in RejectedLinks :
            /\ fetched'[u] = 0
            /\ failed_urls'[u] = ""
            /\ \A k \in DOMAIN queue' : queue'[k][1] # u]_vars

\* a crawl whose URL filter rejects a page of the site has returned after it
\* took a page that the content filter rejected and a page with links
C14_Witness ==
    /\ pc = "returned"
    /\ RejectedLinks # {}
    /\ \E i \in DOMAIN tasks : tasks[i].filtered /\ tasks[i].yielded /\ tasks[i].depth = 1
    /\ BaseUrl \in visited

\* the reset at the start of crawl() is done
CrawlResetDone == pc = "start" /\ pc' = "while"

\* C15: the reset at the start of every crawl() call, a second call on the
\* same object included, leaves visited and failed_urls empty, queued with
\* the start URLs only, the category sets empty and the counters at zero.
C15_ResetOnEveryCall ==
    [][CrawlResetDone =>
          /\ visited' = {}
          /\ queued' = {queue'[k][1] : k \in DOMAIN queue'}
          /\ failed_urls' = [u \in Urls |-> ""]
          /\ doc_links' = {}
          /\ aux_links' = {}
          /\ pages_downloaded' = 0
          /\ assets_downloaded' = 0]_vars

\* crawl() has ended: it returned, or an exception left it
CrawlEnded == b_pc \in {"returned", "raised"}

\* C16: however crawl() ends, no browser that the crawl opened is running
\* and none is registered in active_browser_instances.
C16_NoBrowserLeft ==
    CrawlEnded => b_open = {} /\ active_browser_instances = {}

\* no URL that crawl() starts from passes the validation
NoValidStart == \A k \in DOMAIN InitialUrls : ~is_valid_doc_url(InitialUrls[k])

\* C17: when no start URL passes the validation, crawl() enqueues nothing,
\* fetches nothing and counts no page and no asset.
C17_NoValidStartNoFetch ==
    NoValidStart =>
        /\ queue = <<>>
        /\ \A u \in Urls : fetched[u] = 0
        /\ pages_downloaded = 0
        /\ assets_downloaded = 0

\* the parameters of the link that are in the allow-list, in their order
AllowedParams == SelectSeq(u_query, LAMBDA p : p[1] \in AllowList)

\* C18: the normalisation of either engine keeps exactly the parameters of
\* the allow-list (lang, version, v, platform) and strips every other one.
C18_AllowListOnly ==
    /\ u_crawler_done => Range(u_crawler) = Range(AllowedParams)
    /\ u_scraper_done => Range(u_scraper) = Range(AllowedParams)

\* the category that the tests of the specification give in their order:
\* asset, domain, documentation marker or continuation, auxiliary marker
OrderedCategory(url, base_path) ==
    IF url.nil THEN "invalid"
    ELSE IF is_asset_url(url) THEN "asset"
    ELSE IF url.host # BaseHost
         THEN IF DocSubdomain(url) THEN "doc" ELSE "external"
    ELSE IF (\E p \in DOC_PATTERNS : InPath(p, url)) \/ Continuation(url, base_path)
         THEN "doc"
    ELSE IF \E p \in AUX_PATTERNS : InPath(p, url) THEN "aux"
    ELSE "unmatched"

OnBase(segs) == [nil |-> FALSE, host |-> BaseHost, segs |-> segs, slash |-> FALSE]

\* the examples of the specification against https://docs.example.com
ExampleCategory(url) ==
    CASE url = OnBase(<<"docs", "intro">>) -> "doc"
      [] url = OnBase(<<"pricing">>) -> "aux"
      [] url = [nil |-> FALSE, host |-> <<"other", "com">>, segs |-> <<"x">>,
                slash |-> FALSE] -> "external"
      [] url = OnBase(<<"logo.png">>) -> "asset"
      [] url = NilUrl -> "invalid"
      [] OTHER -> "unmatched"

Classified(result) ==
    /\ OrderedCategory(c_url, c_base_path) # "unmatched"
          => result = OrderedCategory(c_url, c_base_path)
    /\ c_base_path = <<>> /\ ExampleCategory(c_url) # "unmatched"
          => result = ExampleCategory(c_url)

\* C19: either classification returns the category of the first test that
\* matches, in the order asset, domain, documentation marker or
\* continuation, auxiliary marker, and classifies the five examples as the
\* specification says.
C19_OrderedClassification ==
    /\ c_crawler # "none" => Classified(c_crawler)
    /\ c_utils # "none" => Classified(c_utils)

SameSiteUnmatched ==
    /\ ~c_url.nil
    /\ c_url.host = BaseHost
    /\ OrderedCategory(c_url, c_base_path) = "unmatched"

\* C20: a same-site URL that is no asset, matches no documentation marker,
\* does not continue the path of the base URL and matches no auxiliary
\* marker is classified auxiliary by either classification.
C20_DefaultAuxiliary ==
    SameSiteUnmatched =>
        /\ c_crawler # "none" => c_crawler = "aux"
        /\ c_utils # "none" => c_utils = "aux"

\* C21: is_valid_url returns True exactly for a value with scheme http or
\* https and a host that is not empty, and False for every other value.
C21_ValidIffHttpAndHost ==
    v_is_valid # "none" =>
        v_is_valid = Returned(v_url.scheme \in {"http", "https"} /\ v_url.host # "")

\* what validate_url has to do with the value
Validated ==
    IF v_url = EmptyUrl THEN [kind |-> "None", url |-> EmptyUrl]
    ELSE IF ~is_valid_url(v_url) THEN [kind |-> "BadParameter", url |-> EmptyUrl]
    ELSE [kind |-> "url",
          url |-> [scheme |-> v_url.scheme, host |-> v_url.host, port |-> v_url.port,
                   segs |-> v_url.segs, slashes |-> 0, query |-> v_url.query]]

\* C22: validate_url returns None for the empty value, raises BadParameter
\* for every other value that is_valid_url rejects, and returns a valid URL
\* without the trailing slashes of its path and with its query.
C22_ValidateUrl == v_validated # NotValidated => v_validated = Validated

\* a valid URL with a trailing slash and a query has been validated
C22_Witness ==
    /\ v_validated.kind = "url"
    /\ v_url.slashes > 0
    /\ v_url.query # ""
    /\ v_validated.url.query = v_url.query

\* C23: in interactive mode, when the documentation phase ends with
\* auxiliary links found, the page cap not reached and no stop, and the
\* caller's decision is yes, the crawl goes into the auxiliary phase.
C23_AffirmativeLeadsToAuxPhase ==
    [][pc = "phase2" /\ pc' # "phase2" /\ Phase2Asks /\ cfg.aux_decision
          => pc' = "aux_phase"]_vars

\* the URLs on the queue, and the URLs of the tasks whose result the loop
\* has not taken yet
Frontier == {queue[k][1] : k \in DOMAIN queue}
InFlight == {tasks[i].url : i \in {j \in DOMAIN tasks : ~tasks[j].yielded}}

\* C24: while the loop of crawl() runs, queued holds exactly the URLs on the
\* queue or in flight, and when crawl() has returned visited and queued are
\* disjoint.
C24_QueuedIsPending ==
    /\ pc \in {"while", "check", "collect"} => queued = Frontier \cup InFlight
    /\ pc = "returned" => visited \cap queued = {}

\* the loop takes the result of task i and handles the links of its page
HandlesLinks(i) ==
    /\ i \in DOMAIN tasks'
    /\ ~tasks[i].yielded
    /\ tasks'[i].yielded
    /\ ~(impl = "Scraper" /\ stop_event)
    /\ ~raising'

\* the links of the page of task i that the loop goes through
LinksHandled(i) ==
    IF impl = "Crawler"
    THEN IF tasks[i].res.html /\ tasks[i].res.links.tag = "list"
         THEN KindOf(tasks[i].res.links.val, "doc") ELSE <<>>
    ELSE IF links'.tag = "list" THEN SelectSeq(links'.val, is_valid_doc_url) ELSE <<>>

\* C25: handling the links of a page leaves queue, queued and visited as
\* they are for a link that is in visited or in queued and for every link
\* of a page taken at depth >= max_depth; every other link is appended once
\* at the end of the queue, with the next depth, and added to queued.
C25_EnqueueFrame ==
    [][\A i \in DOMAIN tasks :
          HandlesLinks(i) =>
              LET fresh == Dedup(SelectSeq(LinksHandled(i),
                                           LAMBDA l : l \notin visited' /\ l \notin queued))
                  added == IF tasks[i].depth < cfg.max_depth THEN fresh ELSE <<>>
              IN  /\ queue' = queue \o [k \in DOMAIN added |-> <<added[k], tasks[i].depth + 1>>]
                  /\ queued' = queued \cup Range(added)
                  /\ visited' = visited \cup {tasks[i].url}]_vars

\* the base page was taken: a link of it is on the queue at depth 1 and in
\* queued, and the base URL, which is in visited, is not on the queue
C25_Witness ==
    /\ BaseUrl \in visited
    /\ \E k \in DOMAIN queue : queue[k][2] = 1 /\ queue[k][1] \in queued \ visited
    /\ \A k \in DOMAIN queue : queue[k][1] # BaseUrl
    /\ pc = "collect" \/ pc = "exit_with"

\* C26: a URL whose every fetch attempt fails transiently has been attempted
\* exactly retries + 1 times when the download ends, and it ends as a failure.
AllTransient == \A i \in DOMAIN r_script : r_script[i] \in Transient

C26_RetriesPlusOne ==
    (RetryDone /\ AllTransient) => (r_pc = "raised" /\ r_calls = r_retries + 1)

\* C27: a page fetch that has read the stop event as set starts no network
\* I/O afterwards: in browser mode too, and in the fallback from the browser
\* fetch to the plain request, it starts no HTTP request and ends with the
\* cancelled (empty) result.
StartsRequest(i) == b_requests'[i] > b_requests[i]

C27_NoNetworkAfterStopSeen ==
    [][\A i \in DOMAIN b_seen :
          b_seen[i] => (~StartsRequest(i) /\ (b_st'[i] = "done" => b_res'[i] = GaveUp))]_vars

\* C28: once the stop event is set, a download inside the retry loop starts
\* at most one more fetch attempt and takes at most one more wait.
C28_RetryLoopObservesStop ==
    r_stop => /\ r_calls - r_at_stop.calls <= 1
              /\ r_sleeps - r_at_stop.sleeps <= 1

\* C29: in every fetch mode a page whose content fails the content filter is
\* never given to the page callback or to persistence and never counted in
\* pages_downloaded.
C29_FilteredNeverHandedOn == \A h \in b_handed : h.passes

\* C30: the crawl loop starts the inter-batch delay only with a non-empty
\* frontier and with the stop event not set at that point: once the stop
\* event is set, no sleep for the delay is started.
StartsDelay == pc # "sleep" /\ pc' = "sleep"

C30_NoDelayAfterStop ==
    [][StartsDelay => (queue # <<>> /\ ~stop_event)]_vars

\* C31: for a fixed site and configuration the final documentation and
\* auxiliary link sets of Crawler.crawl are the same for every order in
\* which the results of a batch are taken: they are the sets of the crawl
\* that takes the results of every batch in batch order.
RECURSIVE TakeInOrder(_, _, _, _, _)
TakeInOrder(i, site, c, st, batch) ==
    IF batch = <<>> \/ st.raising THEN st
    ELSE TakeInOrder(i, site, c, TakeResult(i, site, c, st, Head(batch)), Tail(batch))

RECURSIVE CrawlInBatchOrder(_, _, _, _)
CrawlInBatchOrder(i, site, c, st) ==
    IF st.raising \/ ~SiteLoopCondition(c, st) THEN st
    ELSE LET n == Min(c.concurrent_requests, Len(st.queue))
             rest == [st EXCEPT !.queue = SubSeq(@, n + 1, Len(@))]
         IN  CrawlInBatchOrder(i, site, c,
                 TakeInOrder(i, site, c, rest, SubSeq(st.queue, 1, n)))

InBatchOrder == CrawlInBatchOrder(s_impl, s_site, s_cfg, SiteStart)

C31_OrderIndependentSets ==
    (s_pc = "returned" /\ s_impl = "Crawler") =>
        /\ s_crawl.doc_links = InBatchOrder.doc_links
        /\ s_crawl.aux_links = InBatchOrder.aux_links

\* C32: the depths of the entries dequeued one after the other during a
\* crawl never decrease (breadth-first order).
C32_DepthsNeverDecrease ==
    \A j, k \in DOMAIN s_dequeued : j < k => s_dequeued[j] <= s_dequeued[k]

\* C33: when persisting a fetched page fails (save_content returns False, or
\* the page callback raises), the failure is written to the log,
\* pages_downloaded is not incremented for that page, the progress callback
\* is not fired for it, and the loop goes on with the next result.
PersistFails == Len(p_batch') < Len(p_batch) /\ p_persist' = "failed"

C33_PersistFailureNotCounted ==
    [][PersistFails =>
          /\ p_log' = p_log + 1
          /\ p_pages_downloaded' = p_pages_downloaded
          /\ p_progress' = p_progress
          /\ p_pc' = "collect"]_vars

\* the callback raised for one page after another page was counted, and
\* results are left to take
C33_Witness ==
    /\ p_persist = "failed"
    /\ p_log = 1
    /\ p_pages_downloaded = 1
    /\ p_batch # <<>>

\* C34: a failure to fetch or save an asset never raises out of the page's
\* fetch task and never changes what the task returns for the page: the
\* task goes on with the other assets and the page result stays as it was.
AssetFails(i) ==
    /\ tasks[i].st = "assets"
    /\ i \in DOMAIN tasks'
    /\ tasks'[i].arun < tasks[i].arun
    /\ assets_downloaded' = assets_downloaded

C35_CrawlReturns == <>(pc = "returned")

\* C36: the links enqueued while the result of one page is taken are links
\* of that page, with the depth of the page + 1; when the fetch of the page
\* failed, no link is enqueued on its behalf.
Enqueued == SubSeq(s_crawl'.queue, Len(s_crawl.queue) + 1, Len(s_crawl'.queue))

C36_LinksOfTheSamePage ==
    [][\A e \in s_batch :
          (s_pc = "collect" /\ s_batch' = s_batch \ {e}) =>
              \A k \in DOMAIN Enqueued :
                  /\ ~s_site[e[1]].fails
                  /\ Enqueued[k][1] \in Range(s_site[e[1]].links)
                  /\ Enqueued[k][2] = e[2] + 1]_vars

\* C37: when crawl() returns, assets_downloaded is the number of assets that
\* were saved, whatever the interleaving of the asset worker threads.
C37_NoIncrementLost == (w_pc = "returned") => (w_assets_downloaded = w_saved)

\* C38: in Crawler.crawl, once a batch has been processed every URL of the
\* batch is in visited, whatever its outcome was (downloaded, failed,
\* filtered, skipped on stop), and no URL is submitted to a fetch task twice
\* in the crawl.
C38_BatchUrlsVisited ==
    impl = "Crawler" =>
        /\ \A i \in DOMAIN tasks : tasks[i].yielded => tasks[i].url \in visited
        /\ pc \in AfterBatch => \A i \in DOMAIN tasks : tasks[i].url \in visited
        /\ \A u \in Urls : fetched[u] <= 1

\* the fetch of a URL failed in an earlier batch, and a page of a later batch
\* whose links may be enqueued links to it
C38_Witness ==
    /\ impl = "Crawler"
    /\ pc = "collect"
    /\ \E u \in visited, i \in DOMAIN tasks :
          /\ failed_urls[u] # ""
          /\ tasks[i].url # u
          /\ tasks[i].st = "done"
          /\ ~tasks[i].yielded
          /\ MayEnqueue(tasks[i].depth)
          /\ tasks[i].res.html
          /\ tasks[i].res.links.tag = "list"
          /\ u \in Range(KindOf(tasks[i].res.links.val, "doc"))

=============================================================================
